---- MODULE Spec2Model ----
(***************************************************************************)
(* minicore-os: the kernel heap allocator (src/mm.c, src/mm.h).            *)
(*                                                                         *)
(* Memory is modelled as the set of block-header images it holds: mem maps *)
(* the address of every intact mem_block_t image to its four fields.  The  *)
(* block list is whatever heap_head and the next fields say it is; nothing *)
(* in the representation forces it to tile the arena.  Header images that  *)
(* merge_free_blocks unlinks stay in mem (the C code does not erase them)  *)
(* until the memory under them is handed out or rewritten.                 *)
(* size_t and pointers are unsigned machine words that wrap.  The target   *)
(* is i386 (32-bit words); TLC's own integers are 32-bit signed and cannot *)
(* hold 2^32, so the word is modelled 30 bits wide: every wrap-around the  *)
(* C arithmetic can perform is kept, at WordMod instead of 2^32.           *)
(*                                                                         *)
(* The scheduler (src/scheduler.c) is modelled on its own variables: the   *)
(* task pool, the ready queue as the linked list the code builds (head,    *)
(* tail and the next fields), current_task and the tick counter.  A task   *)
(* pointer is the number of its pool slot, 1..MAX_TASKS, and NULL is 0.    *)
(* switch_to_task changes bookkeeping only, so whatever code calls         *)
(* task_sleep, task_exit or task_yield, the call acts on current_task.     *)
(***************************************************************************)
EXTENDS Integers, Sequences, FiniteSets, TLC

VARIABLES
    mem,        \* header address -> [size, is_free, next, prev]
    heap_head,  \* static mem_block_t* heap_head
    mem_stats,  \* static mem_stats_t mem_stats
    data,       \* payload pointer of a used block -> the bytes of its payload
    halted,     \* the processor sits in isr_handler's hlt loop
    call,       \* the allocator call that produced this state
    pre,        \* mem and mem_stats as they were when that call was made
    trip,       \* round-trip scenario: payload pointers still to be freed
    pc,         \* where the interrupted task stands inside an allocator call
    loc,        \* the local variables of that call
    held,       \* the pointers each caller was handed and has not freed
    tasks,            \* static task_t tasks[MAX_TASKS]
    task_queue_head,  \* static task_t* task_queue_head
    task_queue_tail,  \* static task_t* task_queue_tail
    current_task,     \* task_t* current_task
    next_task_id,     \* uint32_t next_task_id
    system_ticks,     \* static uint32_t system_ticks
    scall,      \* the scheduler call that produced this state
    spre,       \* the scheduler state when that call was made
    due,        \* slot -> the tick its task asked to sleep until
    runlog,     \* the tasks switch_to_task installed, in order
    issued,     \* the ids task_create handed out, in order
    interrupt_handlers, \* static isr_t interrupt_handlers[256]
    pic,        \* the interrupt mask registers of the two PICs
    registered, \* vector -> the handler last passed to register_interrupt_handler
    trap        \* the last call into isr.c: what it was and what it did

irq_vars == <<pc, loc, held>>

isr_vars == <<interrupt_handlers, pic, registered, trap>>

sched_vars ==
    <<tasks, task_queue_head, task_queue_tail, current_task, next_task_id,
      system_ticks, scall, spre, due, runlog, issued>>

vars ==
    <<mem, heap_head, mem_stats, data, halted, call, pre, trip, irq_vars,
      sched_vars, isr_vars>>

----------------------------------------------------------------------------
(* Program constants *)

NULL == 0
WordMod == 1073741824
KERNEL_HEAP_START == 2097152
KERNEL_HEAP_SIZE == 1048576
HeaderSize == 16
MinSplit == 32
PtrSize == 4

(* Bounds of the model *)

MaxAllocs == 2
MaxTrip == 3
MaxCreates == 2
MaxTicks == 3
MaxRotateTasks == 3
MaxPoolCreates == 9
MaxReuseCreates == 3
MaxLiveTasks == 2
MaxLiveTicks == 40
MaxExitId == 2
MaxRotateTicks == 75
GraceLead == 3
MaxGraceTicks == 11

----------------------------------------------------------------------------
(* Machine-word arithmetic *)

Wrap(x) == x % WordMod

RECURSIVE BitAnd(_, _)
BitAnd(a, b) ==
    IF a = 0 \/ b = 0 THEN 0
    ELSE (IF a % 2 = 1 /\ b % 2 = 1 THEN 1 ELSE 0) + 2 * BitAnd(a \div 2, b \div 2)

BitNot(a) == WordMod - 1 - a

\* a * b in word arithmetic, without leaving TLC's integer range.
RECURSIVE MulWrap(_, _)
MulWrap(a, b) ==
    IF b = 0 THEN 0
    ELSE Wrap(Wrap(2 * MulWrap(a, b \div 2)) + (IF b % 2 = 1 THEN a ELSE 0))

RECURSIVE Pow2(_)
Pow2(k) == IF k = 0 THEN 1 ELSE 2 * Pow2(k - 1)

RECURSIVE Pow256(_)
Pow256(k) == IF k = 0 THEN 1 ELSE 256 * Pow256(k - 1)

----------------------------------------------------------------------------
(* Header images in memory *)

Header(size, is_free, next, prev) ==
    [size |-> size, is_free |-> is_free, next |-> next, prev |-> prev]

\* The images other than the one at addr that a 16-byte header written at
\* addr overlaps: they are destroyed by the write.
Overlapped(m, addr) ==
    {y \in DOMAIN m : y # addr /\ y > addr - HeaderSize /\ y < addr + HeaderSize}

\* Write a whole header at addr.
PutHeader(m, addr, h) ==
    [y \in (DOMAIN m \ Overlapped(m, addr)) \cup {addr} |->
        IF y = addr THEN h ELSE m[y]]

\* Forget the unlinked images lying in [lo, hi): that memory now belongs to
\* the caller, whose writes the model does not follow.
DropImages(m, lo, hi, keep) ==
    [y \in {z \in DOMAIN m : z \in keep \/ z + HeaderSize <= lo \/ z >= hi} |-> m[y]]

\* The value of a 4-byte little-endian field holding f after the 4 bytes of
\* val are stored d bytes above the field's first byte (d in -3..3).
PokeField(f, d, val) ==
    IF d >= 0
    THEN (f % Pow256(d)) + (val % (WordMod \div Pow256(d))) * Pow256(d)
    ELSE (val \div Pow256(-d)) + (f \div Pow256(4 + d)) * Pow256(4 + d)

\* *(void**)addr = val: every header image the four bytes touch changes.
Poke(m, addr, val) ==
    LET F(y, f, o) == IF addr - (y + o) \in -3..3
                      THEN PokeField(f, addr - (y + o), val) ELSE f
    IN [y \in DOMAIN m |->
           Header(F(y, m[y].size, 0), F(y, m[y].is_free, 4),
                  F(y, m[y].next, 8), F(y, m[y].prev, 12))]

RECURSIVE Chain(_, _, _)
Chain(m, cur, fuel) ==
    IF cur = NULL \/ cur \notin DOMAIN m \/ fuel = 0 THEN <<>>
    ELSE <<cur>> \o Chain(m, m[cur].next, fuel - 1)

\* The addresses of the blocks of the list, in list order.
BlockList(m) == Chain(m, heap_head, Cardinality(DOMAIN m))

BlockSet(m) == {BlockList(m)[i] : i \in 1..Len(BlockList(m))}

\* Every pointer a list walk dereferences addresses a header image and the
\* walk ends at NULL.
PointersValid(m) ==
    LET bl == BlockList(m) IN
    /\ heap_head \in DOMAIN m
    /\ Len(bl) >= 1
    /\ m[bl[Len(bl)]].next = NULL
    /\ \A i \in 1..Len(bl) : m[bl[i]].prev = NULL \/ m[bl[i]].prev \in DOMAIN m

----------------------------------------------------------------------------
(* Payload bytes *)

\* A payload is a sequence of runs.  A run of kind "byte" is len bytes of
\* value v; a run of kind "junk" is len bytes nobody has written since boot,
\* v being the address of the first of them.
Run(len, kind, v) == [len |-> len, kind |-> kind, v |-> v]

Junk(addr, len) == IF len = 0 THEN <<>> ELSE <<Run(len, "junk", addr)>>

Fill(val, len) == IF len = 0 THEN <<>> ELSE <<Run(len, "byte", val)>>

RECURSIVE RunsLen(_)
RunsLen(rs) == IF rs = <<>> THEN 0 ELSE rs[1].len + RunsLen(Tail(rs))

\* Run b continues run a: together they are one run.
Joins(a, b) ==
    /\ a.kind = b.kind
    /\ IF a.kind = "byte" THEN a.v = b.v ELSE b.v = a.v + a.len

RECURSIVE Norm(_)
Norm(rs) ==
    IF Len(rs) < 2 THEN rs
    ELSE IF Joins(rs[1], rs[2])
    THEN Norm(<<Run(rs[1].len + rs[2].len, rs[1].kind, rs[1].v)>>
                  \o SubSeq(rs, 3, Len(rs)))
    ELSE <<rs[1]>> \o Norm(Tail(rs))

\* The first n bytes.
RECURSIVE Take(_, _)
Take(rs, n) ==
    IF n <= 0 \/ rs = <<>> THEN <<>>
    ELSE IF rs[1].len <= n THEN <<rs[1]>> \o Take(Tail(rs), n - rs[1].len)
    ELSE <<Run(n, rs[1].kind, rs[1].v)>>

\* All but the first n bytes.
RECURSIVE Drop(_, _)
Drop(rs, n) ==
    IF n <= 0 \/ rs = <<>> THEN rs
    ELSE IF rs[1].len <= n THEN Drop(Tail(rs), n - rs[1].len)
    ELSE <<Run(rs[1].len - n, rs[1].kind,
               IF rs[1].kind = "junk" THEN rs[1].v + n ELSE rs[1].v)>>
             \o Tail(rs)

\* The bytes ws stored off bytes above the first byte of rs (off may be
\* negative): the part of ws that falls inside rs replaces what was there.
WriteAt(rs, off, ws) ==
    LET lo == IF off > 0 THEN off ELSE 0
        end == off + RunsLen(ws)
        hi == IF end < RunsLen(rs) THEN end ELSE RunsLen(rs)
    IN IF lo >= hi THEN rs
       ELSE Norm(Take(rs, lo) \o Take(Drop(ws, lo - off), hi - lo) \o Drop(rs, hi))

\* The four bytes of a pointer in memory, least significant first.
WordBytes(val) ==
    Norm([k \in 1..PtrSize |-> Run(1, "byte", (val \div Pow256(k - 1)) % 256)])

\* The n bytes at address p: the payload tracked there, as far as it goes,
\* and memory nobody wrote for the rest.
PayloadAt(d, p, n) ==
    IF p \in DOMAIN d
    THEN Norm(Take(d[p] \o Junk(p + RunsLen(d[p]), n), n))
    ELSE Junk(p, n)

\* A store of the bytes ws at address addr, seen from every payload.
StoreData(d, addr, ws) == [p \in DOMAIN d |-> WriteAt(d[p], addr - p, ws)]

----------------------------------------------------------------------------
(* mm.c *)

Result(m, st, ret) == [mem |-> m, stats |-> st, ret |-> ret]

mm_init_mem ==
    (KERNEL_HEAP_START :>
        Header(KERNEL_HEAP_SIZE - HeaderSize, 1, NULL, NULL))

mm_init_stats ==
    [total_memory |-> KERNEL_HEAP_SIZE,
     free_memory |-> KERNEL_HEAP_SIZE - HeaderSize,
     used_memory |-> 0,
     num_allocations |-> 0,
     num_frees |-> 0,
     largest_free_block |-> KERNEL_HEAP_SIZE - HeaderSize]

RECURSIVE find_from(_, _, _)
find_from(m, current, size) ==
    IF current = NULL THEN NULL
    ELSE IF m[current].is_free # 0 /\ m[current].size >= size THEN current
    ELSE find_from(m, m[current].next, size)

find_free_block(m, size) == find_from(m, heap_head, size)

\* split_block with the tail left marked used (new_block->is_free = 0).
split_block_tail_used(m, block, size) ==
    IF m[block].size > Wrap(Wrap(size + HeaderSize) + MinSplit)
    THEN LET new_block == Wrap(Wrap(block + HeaderSize) + size)
             m1 == PutHeader(m, new_block,
                       Header(Wrap(Wrap(m[block].size - size) - HeaderSize), 0,
                              m[block].next, block))
             m2 == IF m[block].next # NULL
                   THEN [m1 EXCEPT ![m[block].next].prev = new_block]
                   ELSE m1
         IN [m2 EXCEPT ![block].next = new_block, ![block].size = size]
    ELSE m

split_block(m, block, size) ==
    IF m[block].size > Wrap(Wrap(size + HeaderSize) + MinSplit)
    THEN LET new_block == Wrap(Wrap(block + HeaderSize) + size)
             m1 == PutHeader(m, new_block,
                       Header(Wrap(Wrap(m[block].size - size) - HeaderSize), 1,
                              m[block].next, block))
             m2 == IF m[block].next # NULL
                   THEN [m1 EXCEPT ![m[block].next].prev = new_block]
                   ELSE m1
         IN [m2 EXCEPT ![block].next = new_block, ![block].size = size]
    ELSE m

RECURSIVE merge_next(_, _)
merge_next(m, block) ==
    IF m[block].next # NULL /\ m[m[block].next].is_free # 0
    THEN LET next == m[block].next
             m1 == [m EXCEPT ![block].size = Wrap(Wrap(@ + m[next].size) + HeaderSize),
                             ![block].next = m[next].next]
             m2 == IF m[next].next # NULL
                   THEN [m1 EXCEPT ![m[next].next].prev = block]
                   ELSE m1
         IN merge_next(m2, block)
    ELSE m

RECURSIVE merge_prev(_, _)
merge_prev(m, block) ==
    IF m[block].prev # NULL /\ m[m[block].prev].is_free # 0
    THEN LET prev == m[block].prev
             m1 == [m EXCEPT ![prev].size = Wrap(Wrap(@ + m[block].size) + HeaderSize),
                             ![prev].next = m[block].next]
             m2 == IF m[block].next # NULL
                   THEN [m1 EXCEPT ![m[block].next].prev = prev]
                   ELSE m1
         IN merge_prev(m2, prev)
    ELSE m

\* merge_free_blocks without the forward merge loop.
merge_free_blocks_prev_only(m, block) == merge_prev(m, block)

merge_free_blocks(m, block) == merge_prev(merge_next(m, block), block)

\* size = (size + 7) & ~7
AlignSize(size) == BitAnd(Wrap(size + 7), BitNot(7))

kmalloc(m, st, size) ==
    IF size = 0 THEN Result(m, st, NULL)
    ELSE LET sz == AlignSize(size)
             block == find_free_block(m, sz)
         IN IF block = NULL THEN Result(m, st, NULL)
            ELSE LET m1 == split_block(m, block, sz)
                     m2 == [m1 EXCEPT ![block].is_free = 0]
                     ptr == Wrap(block + HeaderSize)
                 IN Result(
                        DropImages(m2, ptr, ptr + m2[block].size, BlockSet(m2)),
                        [st EXCEPT
                            !.used_memory = Wrap(@ + m2[block].size),
                            !.free_memory = Wrap(@ - m2[block].size),
                            !.num_allocations = Wrap(@ + 1)],
                        ptr)

\* kfree without the double-free test (if (block->is_free) return).
kfree_no_check(m, st, ptr) ==
    IF ptr = NULL THEN Result(m, st, NULL)
    ELSE LET block == ptr - HeaderSize
             m1 == [m EXCEPT ![block].is_free = 1]
         IN Result(
                merge_free_blocks(m1, block),
                [st EXCEPT
                    !.used_memory = Wrap(@ - m[block].size),
                    !.free_memory = Wrap(@ + m[block].size),
                    !.num_frees = Wrap(@ + 1)],
                NULL)

kfree(m, st, ptr) ==
    IF ptr = NULL THEN Result(m, st, NULL)
    ELSE LET block == ptr - HeaderSize IN
         IF m[block].is_free # 0 THEN Result(m, st, NULL)
         ELSE LET m1 == [m EXCEPT ![block].is_free = 1]
              IN Result(
                     merge_free_blocks(m1, block),
                     [st EXCEPT
                         !.used_memory = Wrap(@ - m[block].size),
                         !.free_memory = Wrap(@ + m[block].size),
                         !.num_frees = Wrap(@ + 1)],
                     NULL)

kmalloc_aligned(m, st, size, alignment) ==
    IF alignment = 0 \/ BitAnd(alignment, Wrap(alignment - 1)) # 0
    THEN Result(m, st, NULL)
    ELSE LET total_size == Wrap(Wrap(size + alignment) + PtrSize)
             r == kmalloc(m, st, total_size)
         IN IF r.ret = NULL THEN r
            ELSE LET aligned_addr ==
                         BitAnd(Wrap(Wrap(Wrap(r.ret + PtrSize) + alignment) - 1),
                                BitNot(Wrap(alignment - 1)))
                 IN Result(Poke(r.mem, Wrap(aligned_addr - PtrSize), r.ret),
                           r.stats, aligned_addr)

\* kcalloc for count # 0 (count = 0 divides by zero: see KcallocDivZero).
\* The bytes memset writes are in kcalloc_data.
kcalloc(m, st, count, size) ==
    LET total_size == MulWrap(count, size)
    IN IF total_size \div count # size THEN Result(m, st, NULL)
       ELSE kmalloc(m, st, total_size)

\* krealloc without the new_size == 0 branch.
krealloc_no_free(m, st, ptr, new_size) ==
    IF ptr = NULL THEN kmalloc(m, st, new_size)
    ELSE LET block == ptr - HeaderSize IN
         IF m[block].size >= new_size
         THEN Result(split_block(m, block, new_size), st, ptr)
         ELSE LET a == kmalloc(m, st, new_size)
              IN IF a.ret # NULL
                 THEN LET f == kfree(a.mem, a.stats, ptr)
                      IN Result(f.mem, f.stats, a.ret)
                 ELSE a

\* The block list and the counters after krealloc; the bytes memcpy moves
\* are in krealloc_data.
krealloc(m, st, ptr, new_size) ==
    IF ptr = NULL THEN kmalloc(m, st, new_size)
    ELSE IF new_size = 0
    THEN LET f == kfree(m, st, ptr) IN Result(f.mem, f.stats, NULL)
    ELSE LET block == ptr - HeaderSize IN
         IF m[block].size >= new_size
         THEN Result(split_block(m, block, new_size), st, ptr)
         ELSE LET a == kmalloc(m, st, new_size)
              IN IF a.ret # NULL
                 THEN LET f == kfree(a.mem, a.stats, ptr)
                      IN Result(f.mem, f.stats, a.ret)
                 ELSE a

\* The counters mm_get_stats returns, largest_free_block recomputed by a
\* walk of the list.
RECURSIVE largest_from(_, _, _)
largest_from(m, current, largest) ==
    IF current = NULL THEN largest
    ELSE largest_from(m, m[current].next,
                      IF m[current].is_free # 0 /\ m[current].size > largest
                      THEN m[current].size ELSE largest)

mm_get_stats(m, st) ==
    [st EXCEPT !.largest_free_block = largest_from(m, heap_head, 0)]

\* The walk of mm_check_heap_integrity from block current on, total_size
\* being the sum so far.
RECURSIVE check_from(_, _, _)
check_from(m, current, total_size) ==
    IF current = NULL
    THEN IF total_size <= KERNEL_HEAP_SIZE THEN 1 ELSE 0
    ELSE IF current < KERNEL_HEAP_START
            \/ current >= KERNEL_HEAP_START + KERNEL_HEAP_SIZE
    THEN 0
    ELSE IF m[current].next # NULL /\ m[m[current].next].prev # current
    THEN 0
    ELSE check_from(m, m[current].next,
                    Wrap(total_size + Wrap(m[current].size + HeaderSize)))

mm_check_heap_integrity(m) == check_from(m, heap_head, 0)

----------------------------------------------------------------------------
(* What the calls do to the payloads *)

\* kmalloc writes no payload byte: the block handed out holds what memory
\* held.
kmalloc_data(d, r) ==
    IF r.ret = NULL THEN d
    ELSE [p \in DOMAIN d \cup {r.ret} |->
             IF p = r.ret
             THEN PayloadAt(d, p, r.mem[r.ret - HeaderSize].size)
             ELSE d[p]]

\* A freed payload is no longer anybody's.
kfree_data(m, d, ptr) ==
    IF ptr = NULL \/ m[ptr - HeaderSize].is_free # 0 THEN d
    ELSE [p \in DOMAIN d \ {ptr} |-> d[p]]

\* memset(ptr, 0, total_size) after a successful kmalloc.
kcalloc_data(m, st, d, count, size) ==
    LET total_size == MulWrap(count, size)
        r == kmalloc(m, st, total_size)
    IN IF total_size \div count # size \/ r.ret = NULL THEN d
       ELSE [kmalloc_data(d, r) EXCEPT ![r.ret] = WriteAt(@, 0, Fill(0, total_size))]

\* The memset of kcalloc runs past the end of the block kmalloc returned.
\* It can only do so when the rounding in kmalloc wrapped, and then the
\* store loop goes on through the top of the address space and over the
\* kernel image: the kernel does not survive the call.
kcalloc_overrun(m, st, count, size) ==
    LET total_size == MulWrap(count, size)
        r == kmalloc(m, st, total_size)
    IN /\ total_size \div count = size
       /\ r.ret # NULL
       /\ total_size > r.mem[r.ret - HeaderSize].size

\* krealloc with the memcpy left out.
krealloc_data_no_copy(m, st, d, ptr, new_size) ==
    IF ptr = NULL THEN kmalloc_data(d, kmalloc(m, st, new_size))
    ELSE IF new_size = 0 THEN kfree_data(m, d, ptr)
    ELSE LET block == ptr - HeaderSize IN
         IF m[block].size >= new_size
         THEN [d EXCEPT ![ptr] = Take(@, split_block(m, block, new_size)[block].size)]
         ELSE LET a == kmalloc(m, st, new_size)
              IN IF a.ret # NULL
                 THEN kfree_data(a.mem, kmalloc_data(d, a), ptr)
                 ELSE d

\* The in-place path cuts the payload at the header split_block writes;
\* the copying path is memcpy(new_ptr, ptr, min(block->size, new_size)).
krealloc_data(m, st, d, ptr, new_size) ==
    IF ptr = NULL THEN kmalloc_data(d, kmalloc(m, st, new_size))
    ELSE IF new_size = 0 THEN kfree_data(m, d, ptr)
    ELSE LET block == ptr - HeaderSize IN
         IF m[block].size >= new_size
         THEN [d EXCEPT ![ptr] = Take(@, split_block(m, block, new_size)[block].size)]
         ELSE LET a == kmalloc(m, st, new_size)
                  d1 == kmalloc_data(d, a)
                  n == IF a.mem[block].size < new_size
                       THEN a.mem[block].size ELSE new_size
              IN IF a.ret # NULL
                 THEN kfree_data(a.mem,
                          [d1 EXCEPT ![a.ret] = WriteAt(@, 0, Take(d1[ptr], n))],
                          ptr)
                 ELSE d

\* The memcpy of krealloc runs past the end of the block kmalloc returned:
\* it copies min(block->size, new_size) bytes, which the new block holds
\* unless the rounding in kmalloc wrapped. The bytes land on the header of
\* the block behind and the kfree that follows walks a list of payload
\* bytes: the kernel does not survive the call.
krealloc_overrun(m, st, ptr, new_size) ==
    /\ ptr # NULL
    /\ new_size # 0
    /\ m[ptr - HeaderSize].size < new_size
    /\ LET a == kmalloc(m, st, new_size)
       IN /\ a.ret # NULL
          /\ m[ptr - HeaderSize].size > a.mem[a.ret - HeaderSize].size

\* *((void**)aligned_ptr - 1) = raw_ptr, as far as it lands in a payload.
kmalloc_aligned_data(m, st, d, size, alignment) ==
    IF alignment = 0 \/ BitAnd(alignment, Wrap(alignment - 1)) # 0 THEN d
    ELSE LET r == kmalloc(m, st, Wrap(Wrap(size + alignment) + PtrSize))
             a == kmalloc_aligned(m, st, size, alignment)
         IN IF r.ret = NULL THEN d
            ELSE StoreData(kmalloc_data(d, r), Wrap(a.ret - PtrSize), WordBytes(r.ret))

----------------------------------------------------------------------------
(* scheduler.c *)

MAX_TASKS == 8
TIME_SLICE == 10
GRACE_TICKS == 100

TASK_READY == "READY"
TASK_RUNNING == "RUNNING"
TASK_SLEEPING == "SLEEPING"
TASK_TERMINATED == "TERMINATED"

Slots == 1..MAX_TASKS

\* The fields of task_t the scheduler's bookkeeping uses.
Task(id, state, time_slice, time_remaining, sleep_until, next) ==
    [id |-> id, state |-> state, time_slice |-> time_slice,
     time_remaining |-> time_remaining, sleep_until |-> sleep_until,
     next |-> next]

\* The scheduler's statics, as the functions below pass them along.  log
\* collects the tasks switch_to_task installs, at the state in which
\* schedule() was entered and mid the state at the end of the wake loop of
\* scheduler_tick, each as a sequence of at most one element.
Sched(t, head, tail, cur, id, ticks) ==
    [tasks |-> t, task_queue_head |-> head, task_queue_tail |-> tail,
     current_task |-> cur, next_task_id |-> id, system_ticks |-> ticks,
     log |-> <<>>, at |-> <<>>, mid |-> <<>>]

View(S) == [S EXCEPT !.log = <<>>, !.at = <<>>, !.mid = <<>>]

\* The statics after scheduler_init; the other fields of the pool are the
\* zeroes of static storage.
scheduler_init ==
    Sched([i \in Slots |-> Task(0, TASK_TERMINATED, 0, 0, 0, NULL)],
          NULL, NULL, NULL, 1, 0)

\* task_queue_add linking the task in front of the head (LIFO).
task_queue_add_front(S, task) ==
    IF S.task_queue_head # NULL
    THEN [S EXCEPT !.tasks = [@ EXCEPT ![task].next = S.task_queue_head],
                   !.task_queue_head = task]
    ELSE [S EXCEPT !.tasks = [@ EXCEPT ![task].next = NULL],
                   !.task_queue_head = task,
                   !.task_queue_tail = task]

task_queue_add(S, task) ==
    LET t1 == [S.tasks EXCEPT ![task].next = NULL]
    IN IF S.task_queue_tail # NULL
       THEN [S EXCEPT !.tasks = [t1 EXCEPT ![S.task_queue_tail].next = task],
                      !.task_queue_tail = task]
       ELSE [S EXCEPT !.tasks = t1,
                      !.task_queue_head = task,
                      !.task_queue_tail = task]

\* The statics after task_queue_remove_next, which returns the old head.
task_queue_remove_next(S) ==
    IF S.task_queue_head = NULL THEN S
    ELSE LET task == S.task_queue_head
             head == S.tasks[task].next
         IN [S EXCEPT !.task_queue_head = head,
                      !.task_queue_tail = IF head = NULL THEN NULL ELSE @,
                      !.tasks = [@ EXCEPT ![task].next = NULL]]

switch_to_task(S, task) ==
    [S EXCEPT !.tasks = [@ EXCEPT ![task].state = TASK_RUNNING,
                                  ![task].time_remaining = S.tasks[task].time_slice],
              !.current_task = task,
              !.log = Append(@, task)]

schedule(S) ==
    LET next_task == S.task_queue_head
        S0 == [S EXCEPT !.at = <<View(S)>>]
        S1 == task_queue_remove_next(S0)
        cur == S1.current_task
        S2 == IF cur # NULL /\ S1.tasks[cur].state = TASK_RUNNING
              THEN task_queue_add(
                       [S1 EXCEPT !.tasks =
                           [@ EXCEPT ![cur].state = TASK_READY,
                                     ![cur].time_remaining = S1.tasks[cur].time_slice]],
                       cur)
              ELSE S1
    IN IF next_task = NULL THEN S0 ELSE switch_to_task(S2, next_task)

\* The wake loop of scheduler_tick from slot i on.
RECURSIVE wake_from(_, _)
wake_from(S, i) ==
    IF i > MAX_TASKS THEN S
    ELSE IF /\ S.tasks[i].state = TASK_SLEEPING
            /\ S.tasks[i].sleep_until <= S.system_ticks
    THEN wake_from(
             task_queue_add([S EXCEPT !.tasks = [@ EXCEPT ![i].state = TASK_READY]], i),
             i + 1)
    ELSE wake_from(S, i + 1)

scheduler_tick(S) ==
    LET S1 == wake_from([S EXCEPT !.system_ticks = Wrap(@ + 1)], 1)
        S2 == [S1 EXCEPT !.mid = <<View(S1)>>]
        cur == S2.current_task
    IN IF cur # NULL /\ S2.system_ticks > GRACE_TICKS
       THEN LET S3 == [S2 EXCEPT !.tasks =
                          [@ EXCEPT ![cur].time_remaining = Wrap(@ - 1)]]
            IN IF S3.tasks[cur].time_remaining = 0 THEN schedule(S3) ELSE S3
       ELSE S2

\* The slot task_create picks: the first TERMINATED one, NULL when none is.
free_slot(S) ==
    IF \E i \in Slots : S.tasks[i].state = TASK_TERMINATED
    THEN CHOOSE i \in Slots :
             /\ S.tasks[i].state = TASK_TERMINATED
             /\ \A j \in Slots : S.tasks[j].state = TASK_TERMINATED => i <= j
    ELSE NULL

\* What task_create returns.
task_create_id(S) == IF free_slot(S) = NULL THEN 0 ELSE S.next_task_id

task_create(S) ==
    LET task == free_slot(S)
    IN IF task = NULL THEN S
       ELSE task_queue_add(
                [S EXCEPT !.tasks =
                     [@ EXCEPT ![task] =
                         Task(S.next_task_id, TASK_READY, TIME_SLICE, TIME_SLICE,
                              0, S.tasks[task].next)],
                          !.next_task_id = Wrap(@ + 1)],
                task)

task_yield(S) == schedule(S)

task_sleep(S, ticks) ==
    LET cur == S.current_task
    IN IF cur # NULL
       THEN schedule([S EXCEPT !.tasks =
                         [@ EXCEPT ![cur].state = TASK_SLEEPING,
                                   ![cur].sleep_until = Wrap(S.system_ticks + ticks)]])
       ELSE S

task_exit(S) ==
    LET cur == S.current_task
    IN IF cur # NULL
       THEN schedule([S EXCEPT !.tasks = [@ EXCEPT ![cur].state = TASK_TERMINATED],
                               !.current_task = NULL])
       ELSE S

----------------------------------------------------------------------------
(* isr.c *)

PIC1_COMMAND == 32      \* 0x20
PIC1_DATA == 33         \* 0x21
PIC2_COMMAND == 160     \* 0xA0
PIC2_DATA == 161        \* 0xA1
PIC_EOI == 32           \* 0x20
NUM_VECTORS == 256
NUM_EXCEPTIONS == 32

Vectors == 0..(NUM_VECTORS - 1)

\* The value of 1 << k in the eight bits a PIC data port takes.
Bit8(k) == IF k >= 8 THEN 0 ELSE Pow2(k)

BitOr(a, b) == a + b - BitAnd(a, b)

\* The statics of isr.c and the hardware they drive, as one record; log is
\* what the call under way did so far: its port writes and handler calls.
Isr(handlers, p, h, log) == [handlers |-> handlers, pic |-> p, halted |-> h, log |-> log]

Outb(port, val) == [op |-> "outb", port |-> port, val |-> val]

Invoke(handler, vector) == [op |-> "call", port |-> vector, val |-> handler]

\* outb: the data port of a PIC holds its interrupt mask register.
outb(I, port, val) ==
    [I EXCEPT !.log = Append(@, Outb(port, val)),
              !.pic = IF port = PIC1_DATA THEN [@ EXCEPT !.master = val]
                      ELSE IF port = PIC2_DATA THEN [@ EXCEPT !.slave = val]
                      ELSE @]

inb(I, port) ==
    IF port = PIC1_DATA THEN I.pic.master
    ELSE IF port = PIC2_DATA THEN I.pic.slave
    ELSE 0

\* The statics after isr_init, which are also the zeroes of static storage.
isr_init == [v \in Vectors |-> 0]

\* handler(r): the handler is called with the registers of the trap.
call_handler(I, int_no) ==
    [I EXCEPT !.log = Append(@, Invoke(I.handlers[int_no], int_no))]

isr_handler(I, int_no) ==
    IF I.handlers[int_no] # 0 THEN call_handler(I, int_no)
    ELSE [I EXCEPT !.halted = TRUE]

\* irq_ack answering the master before the slave.
irq_ack_master_first(I, irq) ==
    LET I1 == outb(I, PIC1_COMMAND, PIC_EOI)
    IN IF irq >= 8 THEN outb(I1, PIC2_COMMAND, PIC_EOI) ELSE I1

irq_ack(I, irq) ==
    LET I1 == IF irq >= 8 THEN outb(I, PIC2_COMMAND, PIC_EOI) ELSE I
    IN outb(I1, PIC1_COMMAND, PIC_EOI)

\* irq_ack takes a uint8_t: int_no - 32 is cut to eight bits.
irq_handler(I, int_no) ==
    LET I1 == irq_ack(I, (int_no + NUM_VECTORS - 32) % 256)
    IN IF I1.handlers[int_no] # 0 THEN call_handler(I1, int_no) ELSE I1

\* register_interrupt_handler that keeps a handler already installed.
register_interrupt_handler_once(I, n, handler) ==
    IF I.handlers[n] # 0 THEN I
    ELSE [I EXCEPT !.handlers = [@ EXCEPT ![n] = handler]]

register_interrupt_handler(I, n, handler) ==
    [I EXCEPT !.handlers = [@ EXCEPT ![n] = handler]]

\* irq_enable clearing the bit in the master's mask whatever the line.
irq_enable_master_only(I, irq) ==
    outb(I, PIC1_DATA, BitAnd(inb(I, PIC1_DATA), 255 - Bit8(irq % 8)))

irq_enable(I, irq) ==
    LET port == IF irq < 8 THEN PIC1_DATA ELSE PIC2_DATA
        line == IF irq < 8 THEN irq ELSE irq - 8
    IN outb(I, port, BitAnd(inb(I, port), 255 - Bit8(line)))

irq_disable(I, irq) ==
    LET port == IF irq < 8 THEN PIC1_DATA ELSE PIC2_DATA
        line == IF irq < 8 THEN irq ELSE irq - 8
    IN outb(I, port, BitOr(inb(I, port), Bit8(line)))

\* The trap entry: the stub of a vector below 32 calls isr_handler, the stub
\* of any other vector calls irq_handler.
dispatch(I, int_no) ==
    IF int_no < NUM_EXCEPTIONS THEN isr_handler(I, int_no) ELSE irq_handler(I, int_no)

----------------------------------------------------------------------------
(* The calls a kernel client can make *)

SIZE_MAX == WordMod - 1

KmallocSizes == {0, 8, 100, KERNEL_HEAP_SIZE - 56, SIZE_MAX}

CallocCounts == {0, 2, (WordMod \div 2) + 1, (WordMod \div 4) - 1}

CallocSizes == {4}

ReallocSizes == {0, 8, 100}

\* The sizes krealloc is called with from outside the allocator.
KreallocSizes == ReallocSizes \cup {SIZE_MAX}

\* <<size, alignment>>
AlignedArgs == {<<8, 0>>, <<8, 3>>, <<8, 8>>, <<WordMod - 64, 64>>}

\* Payload pointers of the used blocks of the list.
LivePointers ==
    {Wrap(b + HeaderSize) : b \in {x \in BlockSet(mem) : mem[x].is_free = 0}}

\* Payload pointers whose header image reads as free: blocks already freed.
FreedPointers ==
    {Wrap(b + HeaderSize) : b \in {x \in DOMAIN mem : mem[x].is_free # 0}}

Call(op, ptr, size, n, ret) ==
    [op |-> op, ptr |-> ptr, size |-> size, n |-> n, ret |-> ret]

Snapshot == [mem |-> mem, stats |-> mem_stats, data |-> data]

Apply(r, d, c) ==
    /\ mem' = r.mem
    /\ mem_stats' = r.stats
    /\ data' = d
    /\ call' = c
    /\ pre' = Snapshot
    /\ UNCHANGED <<heap_head, trip, irq_vars, sched_vars, isr_vars>>

Running == ~halted /\ PointersValid(mem)

\* The locals of the allocator call a task is inside of: the rounded size
\* and the block of kmalloc, the arguments of kfree and krealloc, new_ptr
\* of krealloc, and the function the task called.
Local(size, block, ptr, new_size, new_ptr, fn) ==
    [size |-> size, block |-> block, ptr |-> ptr, new_size |-> new_size,
     new_ptr |-> new_ptr, fn |-> fn]

NoLocal == Local(0, NULL, NULL, 0, NULL, "none")

\* The model stops allocating after MaxAllocs successful allocations.
Within(r) == r.stats.num_allocations <= MaxAllocs

\* The scheduler's statics as one record.
Statics ==
    Sched(tasks, task_queue_head, task_queue_tail, current_task, next_task_id,
          system_ticks)

SCall(op, arg, ret, S) ==
    [op |-> op, arg |-> arg, ret |-> ret, at |-> S.at, mid |-> S.mid]

InitScheduler ==
    /\ tasks = scheduler_init.tasks
    /\ task_queue_head = NULL
    /\ task_queue_tail = NULL
    /\ current_task = NULL
    /\ next_task_id = 1
    /\ system_ticks = 0
    /\ scall = SCall("scheduler_init", 0, 0, scheduler_init)
    /\ spre = View(scheduler_init)
    /\ due = [i \in Slots |-> 0]
    /\ runlog = <<>>
    /\ issued = <<>>

\* What the last call into isr.c was: the call, its arguments, the port
\* writes and handler calls it made, and the table and masks it found.
ICall(op, vector, handler, did, handlers, p) ==
    [op |-> op, vector |-> vector, handler |-> handler, did |-> did,
     pre |-> [handlers |-> handlers, pic |-> p]]

\* isr.c never writes a mask before irq_enable or irq_disable reads it: the
\* masks at boot are whatever the firmware left in the two PICs.
InitIsrMasks(masks) ==
    /\ interrupt_handlers = isr_init
    /\ pic \in [master : masks, slave : masks]
    /\ registered = [v \in Vectors |-> 0]
    /\ trap = ICall("isr_init", 0, 0, <<>>, isr_init, pic)

\* Every line masked, the state the other layers are explored from.
InitIsr == InitIsrMasks({255})

InitAllocator ==
    /\ mem = mm_init_mem
    /\ heap_head = KERNEL_HEAP_START
    /\ mem_stats = mm_init_stats
    /\ data = <<>>
    /\ halted = FALSE
    /\ call = Call("mm_init", NULL, 0, 0, NULL)
    /\ pre = [mem |-> mm_init_mem, stats |-> mm_init_stats, data |-> <<>>]
    /\ trip = <<>>
    /\ pc = "idle"
    /\ loc = NoLocal
    /\ held = [task |-> {}, irq |-> {}]

Init == InitAllocator /\ InitScheduler /\ InitIsr

Kmalloc ==
    /\ Running
    /\ \E size \in KmallocSizes :
         LET r == kmalloc(mem, mem_stats, size)
         IN /\ Within(r)
            /\ Apply(r, kmalloc_data(data, r), Call("kmalloc", NULL, size, 0, r.ret))
            /\ UNCHANGED halted

\* kcalloc(0, size) evaluates total_size / 0: undefined in C.  On i386 the
\* div instruction raises vector 0, which isr_handler answers by halting;
\* a build that does not trap goes on to return NULL.
KcallocDivZero ==
    /\ Running
    /\ \E size \in CallocSizes :
         /\ call' = Call("kcalloc", NULL, size, 0, NULL)
         /\ pre' = Snapshot
         /\ halted' \in BOOLEAN
         /\ UNCHANGED <<mem, heap_head, mem_stats, data, trip, irq_vars, sched_vars, isr_vars>>

Kcalloc ==
    /\ Running
    /\ \E count \in CallocCounts \ {0}, size \in CallocSizes :
         LET r == kcalloc(mem, mem_stats, count, size)
         IN /\ Within(r)
            /\ Apply(r, kcalloc_data(mem, mem_stats, data, count, size),
                     Call("kcalloc", NULL, size, count, r.ret))
            /\ halted' = kcalloc_overrun(mem, mem_stats, count, size)

Krealloc ==
    /\ Running
    /\ \E ptr \in {NULL} \cup LivePointers, new_size \in KreallocSizes :
         LET r == krealloc(mem, mem_stats, ptr, new_size)
         IN /\ Within(r)
            /\ Apply(r, krealloc_data(mem, mem_stats, data, ptr, new_size),
                     Call("krealloc", ptr, new_size, 0, r.ret))
            /\ halted' = krealloc_overrun(mem, mem_stats, ptr, new_size)

KmallocAligned ==
    /\ Running
    /\ \E a \in AlignedArgs :
         LET r == kmalloc_aligned(mem, mem_stats, a[1], a[2])
         IN /\ Within(r)
            /\ Apply(r, kmalloc_aligned_data(mem, mem_stats, data, a[1], a[2]),
                     Call("kmalloc_aligned", NULL, a[1], a[2], r.ret))
            /\ UNCHANGED halted

Kfree ==
    /\ Running
    /\ \E ptr \in {NULL} \cup LivePointers \cup FreedPointers :
         LET r == kfree(mem, mem_stats, ptr)
         IN /\ Apply(r, kfree_data(mem, data, ptr), Call("kfree", ptr, 0, 0, NULL))
            /\ UNCHANGED halted

Next == Kmalloc \/ Kcalloc \/ KcallocDivZero \/ Krealloc \/ Kfree

Spec == Init /\ [][Next]_vars

NextAligned == Next \/ KmallocAligned

\* Round trip: allocate up to MaxTrip blocks with kmalloc, then free them
\* all, last allocated first.
TripAlloc ==
    /\ Running
    /\ mem_stats.num_frees = 0
    /\ Len(trip) < MaxTrip
    /\ \E size \in KmallocSizes :
         LET r == kmalloc(mem, mem_stats, size)
         IN /\ mem' = r.mem
            /\ mem_stats' = r.stats
            /\ data' = kmalloc_data(data, r)
            /\ call' = Call("kmalloc", NULL, size, 0, r.ret)
            /\ pre' = Snapshot
            /\ trip' = IF r.ret # NULL THEN Append(trip, r.ret) ELSE trip
            /\ UNCHANGED <<heap_head, halted, irq_vars, sched_vars, isr_vars>>

TripFree ==
    /\ Running
    /\ trip # <<>>
    /\ LET ptr == trip[Len(trip)]
           r == kfree(mem, mem_stats, ptr)
       IN /\ mem' = r.mem
          /\ mem_stats' = r.stats
          /\ data' = kfree_data(mem, data, ptr)
          /\ call' = Call("kfree", ptr, 0, 0, NULL)
          /\ pre' = Snapshot
          /\ trip' = SubSeq(trip, 1, Len(trip) - 1)
          /\ UNCHANGED <<heap_head, halted, irq_vars, sched_vars, isr_vars>>

NextRoundTrip == TripAlloc \/ TripFree

SpecRoundTrip == Init /\ [][NextRoundTrip]_vars

SpecAligned == Init /\ [][NextAligned]_vars

----------------------------------------------------------------------------
(* An allocator call of a task taken statement by statement.  mm.c never
   masks interrupts, so an interrupt can arrive between any two statements;
   irq_handler then runs the registered handler to its end, and the handler
   considered here calls kmalloc or kfree. *)

TaskSizes == {8, 100}

IrqSizes == {8}

RECURSIVE NextsValid(_, _, _)
NextsValid(m, b, fuel) ==
    b = NULL \/ (fuel > 0 /\ b \in DOMAIN m /\ NextsValid(m, m[b].next, fuel - 1))

RECURSIVE PrevsValid(_, _, _)
PrevsValid(m, b, fuel) ==
    b = NULL \/ (fuel > 0 /\ b \in DOMAIN m /\ PrevsValid(m, m[b].prev, fuel - 1))

\* Block b and every header reached from it through next or prev is a
\* header image: the statements working on b read defined memory.
Derefs(b) ==
    /\ b \in DOMAIN mem
    /\ NextsValid(mem, b, Cardinality(DOMAIN mem))
    /\ PrevsValid(mem, b, Cardinality(DOMAIN mem))

\* The diagnostic calls, made between the allocator calls: both walk the
\* list through the next fields only.
Walkable == ~halted /\ NextsValid(mem, heap_head, Cardinality(DOMAIN mem))

MmCheckHeapIntegrity ==
    /\ Walkable
    /\ call' = Call("mm_check_heap_integrity", NULL, 0, 0, mm_check_heap_integrity(mem))
    /\ pre' = Snapshot
    /\ UNCHANGED <<mem, heap_head, mem_stats, data, halted, trip, irq_vars,
                   sched_vars, isr_vars>>

MmGetStats ==
    /\ Walkable
    /\ mem_stats' = mm_get_stats(mem, mem_stats)
    /\ call' = Call("mm_get_stats", NULL, 0, 0, NULL)
    /\ pre' = Snapshot
    /\ UNCHANGED <<mem, heap_head, data, halted, trip, irq_vars, sched_vars,
                   isr_vars>>

SpecDiag == Init /\ [][NextAligned \/ MmCheckHeapIntegrity \/ MmGetStats]_vars

Awake == Running /\ pc # "wild"

\* A statement reads a header where no header is: what follows is undefined.
Wild ==
    /\ pc' = "wild"
    /\ UNCHANGED <<mem, mem_stats, data, loc, held>>

\* The call the task is in returns ret.
TaskReturn(ret) ==
    /\ pc' = "idle"
    /\ loc' = NoLocal
    /\ held' = [held EXCEPT !.task = IF ret = NULL THEN @ ELSE @ \cup {ret}]

\* kmalloc up to the return of find_free_block (mm.c:133-143).
KmallocEnter(size, l) ==
    LET sz == AlignSize(size)
        block == IF size = 0 THEN NULL ELSE find_free_block(mem, sz)
    IN /\ mem_stats.num_allocations < MaxAllocs
       /\ IF block = NULL THEN TaskReturn(NULL)
          ELSE /\ pc' = "split"
               /\ loc' = [l EXCEPT !.size = sz, !.block = block]
               /\ UNCHANGED held
       /\ UNCHANGED <<mem, mem_stats, data>>

TaskKmalloc ==
    /\ Awake
    /\ pc = "idle"
    /\ \E size \in TaskSizes :
         KmallocEnter(size, Local(0, NULL, NULL, 0, NULL, "kmalloc"))
    /\ UNCHANGED <<heap_head, halted, call, pre, trip, sched_vars, isr_vars>>

\* split_block(block, size) (mm.c:146).
TaskSplit ==
    /\ Awake
    /\ pc = "split"
    /\ IF ~Derefs(loc.block) THEN Wild
       ELSE /\ mem' = split_block(mem, loc.block, loc.size)
            /\ pc' = "mark"
            /\ UNCHANGED <<mem_stats, data, loc, held>>
    /\ UNCHANGED <<heap_head, halted, call, pre, trip, sched_vars, isr_vars>>

\* block->is_free = 0, the counters, and the return (mm.c:149-157).  Inside
\* krealloc the task goes on to the memcpy.
TaskMark ==
    /\ Awake
    /\ pc = "mark"
    /\ IF ~Derefs(loc.block) THEN Wild
       ELSE LET block == loc.block
                m2 == [mem EXCEPT ![block].is_free = 0]
                ptr == Wrap(block + HeaderSize)
                r == Result(DropImages(m2, ptr, ptr + m2[block].size, BlockSet(m2)),
                            [mem_stats EXCEPT
                                !.used_memory = Wrap(@ + m2[block].size),
                                !.free_memory = Wrap(@ - m2[block].size),
                                !.num_allocations = Wrap(@ + 1)],
                            ptr)
            IN /\ mem' = r.mem
               /\ mem_stats' = r.stats
               /\ data' = kmalloc_data(data, r)
               /\ IF loc.fn = "kmalloc" THEN TaskReturn(ptr)
                  ELSE /\ pc' = "copy"
                       /\ loc' = [loc EXCEPT !.new_ptr = ptr]
                       /\ held' = [held EXCEPT !.task = @ \cup {ptr}]
    /\ UNCHANGED <<heap_head, halted, call, pre, trip, sched_vars, isr_vars>>

\* The call of kfree(ptr).
TaskKfree ==
    /\ Awake
    /\ pc = "idle"
    /\ \E ptr \in {NULL} \cup held.task :
         /\ pc' = "free"
         /\ loc' = Local(0, NULL, ptr, 0, NULL, "kfree")
    /\ UNCHANGED <<mem, heap_head, mem_stats, data, halted, call, pre, trip, held,
                   sched_vars, isr_vars>>

\* kfree up to block->is_free = 1 (mm.c:200-213).
TaskFree ==
    /\ Awake
    /\ pc = "free"
    /\ LET block == loc.ptr - HeaderSize IN
       IF loc.ptr = NULL
       THEN TaskReturn(loc.new_ptr) /\ UNCHANGED <<mem, mem_stats, data>>
       ELSE IF block \notin DOMAIN mem THEN Wild
       ELSE IF mem[block].is_free # 0
       THEN TaskReturn(loc.new_ptr) /\ UNCHANGED <<mem, mem_stats, data>>
       ELSE /\ mem' = [mem EXCEPT ![block].is_free = 1]
            /\ data' = [p \in DOMAIN data \ {loc.ptr} |-> data[p]]
            /\ held' = [held EXCEPT !.task = @ \ {loc.ptr}]
            /\ pc' = "stats"
            /\ loc' = [loc EXCEPT !.block = block]
            /\ UNCHANGED mem_stats
    /\ UNCHANGED <<heap_head, halted, call, pre, trip, sched_vars, isr_vars>>

\* The counters of kfree (mm.c:216-218).
TaskFreeStats ==
    /\ Awake
    /\ pc = "stats"
    /\ IF loc.block \notin DOMAIN mem THEN Wild
       ELSE /\ mem_stats' = [mem_stats EXCEPT
                                !.used_memory = Wrap(@ - mem[loc.block].size),
                                !.free_memory = Wrap(@ + mem[loc.block].size),
                                !.num_frees = Wrap(@ + 1)]
            /\ pc' = "merge"
            /\ UNCHANGED <<mem, data, loc, held>>
    /\ UNCHANGED <<heap_head, halted, call, pre, trip, sched_vars, isr_vars>>

\* merge_free_blocks(block) and the return (mm.c:221).
TaskFreeMerge ==
    /\ Awake
    /\ pc = "merge"
    /\ IF ~Derefs(loc.block) THEN Wild
       ELSE /\ mem' = merge_free_blocks(mem, loc.block)
            /\ TaskReturn(loc.new_ptr)
            /\ UNCHANGED <<mem_stats, data>>
    /\ UNCHANGED <<heap_head, halted, call, pre, trip, sched_vars, isr_vars>>

\* krealloc up to the call it makes (mm.c:226-244).
TaskKrealloc ==
    /\ Awake
    /\ pc = "idle"
    /\ \E ptr \in held.task, new_size \in ReallocSizes :
         LET block == ptr - HeaderSize IN
         IF new_size = 0
         THEN /\ pc' = "free"
              /\ loc' = Local(0, NULL, ptr, 0, NULL, "krealloc")
              /\ UNCHANGED <<mem, mem_stats, data, held>>
         ELSE IF block \notin DOMAIN mem THEN Wild
         ELSE IF mem[block].size >= new_size
         THEN /\ pc' = "shrink"
              /\ loc' = Local(0, block, ptr, new_size, NULL, "krealloc")
              /\ UNCHANGED <<mem, mem_stats, data, held>>
         ELSE KmallocEnter(new_size, Local(0, NULL, ptr, new_size, NULL, "krealloc"))
    /\ UNCHANGED <<heap_head, halted, call, pre, trip, sched_vars, isr_vars>>

\* split_block(block, new_size) and return ptr (mm.c:239-240).
TaskShrink ==
    /\ Awake
    /\ pc = "shrink"
    /\ IF ~Derefs(loc.block) THEN Wild
       ELSE /\ mem' = split_block(mem, loc.block, loc.new_size)
            /\ data' = [p \in DOMAIN data |->
                           IF p = loc.ptr THEN Take(data[p], mem'[loc.block].size)
                           ELSE data[p]]
            /\ TaskReturn(loc.ptr)
            /\ UNCHANGED mem_stats
    /\ UNCHANGED <<heap_head, halted, call, pre, trip, sched_vars, isr_vars>>

\* memcpy(new_ptr, ptr, min(block->size, new_size)), then the call of
\* kfree(ptr) (mm.c:246-247).
TaskCopy ==
    /\ Awake
    /\ pc = "copy"
    /\ LET block == loc.ptr - HeaderSize IN
       IF block \notin DOMAIN mem THEN Wild
       ELSE LET n == IF mem[block].size < loc.new_size
                     THEN mem[block].size ELSE loc.new_size
            IN /\ data' = [p \in DOMAIN data |->
                              IF p = loc.new_ptr
                              THEN WriteAt(data[p], 0, PayloadAt(data, loc.ptr, n))
                              ELSE data[p]]
               /\ pc' = "free"
               /\ UNCHANGED <<mem, mem_stats, loc, held>>
    /\ UNCHANGED <<heap_head, halted, call, pre, trip, sched_vars, isr_vars>>

\* The interrupt handler calls kmalloc.
IrqKmalloc ==
    /\ Awake
    /\ \E size \in IrqSizes :
         LET r == kmalloc(mem, mem_stats, size)
         IN /\ Within(r)
            /\ mem' = r.mem
            /\ mem_stats' = r.stats
            /\ data' = kmalloc_data(data, r)
            /\ held' = [held EXCEPT !.irq = IF r.ret = NULL THEN @ ELSE @ \cup {r.ret}]
    /\ UNCHANGED <<heap_head, halted, call, pre, trip, pc, loc, sched_vars, isr_vars>>

\* The interrupt handler calls kfree on a pointer it was handed.
IrqKfree ==
    /\ Awake
    /\ \E ptr \in held.irq :
         IF ~Derefs(ptr - HeaderSize)
         THEN pc' = "wild" /\ UNCHANGED <<mem, mem_stats, data, loc, held>>
         ELSE LET r == kfree(mem, mem_stats, ptr)
              IN /\ mem' = r.mem
                 /\ mem_stats' = r.stats
                 /\ data' = kfree_data(mem, data, ptr)
                 /\ held' = [held EXCEPT !.irq = @ \ {ptr}]
                 /\ UNCHANGED <<pc, loc>>
    /\ UNCHANGED <<heap_head, halted, call, pre, trip, sched_vars, isr_vars>>

NextIrq ==
    \/ TaskKmalloc \/ TaskSplit \/ TaskMark
    \/ TaskKfree \/ TaskFree \/ TaskFreeStats \/ TaskFreeMerge
    \/ TaskKrealloc \/ TaskShrink \/ TaskCopy
    \/ IrqKmalloc \/ IrqKfree

SpecIrq == Init /\ [][NextIrq]_vars

----------------------------------------------------------------------------
(* The scheduler's entry points *)

\* uint32_t ticks
SleepTicks == {1, 2, SIZE_MAX}

AllocatorIdle ==
    UNCHANGED <<mem, heap_head, mem_stats, data, halted, call, pre, trip, irq_vars,
                isr_vars>>

Commit(S, c) ==
    /\ tasks' = S.tasks
    /\ task_queue_head' = S.task_queue_head
    /\ task_queue_tail' = S.task_queue_tail
    /\ current_task' = S.current_task
    /\ next_task_id' = S.next_task_id
    /\ system_ticks' = S.system_ticks
    /\ scall' = c
    /\ spre' = View(Statics)
    /\ AllocatorIdle

DoCreate ==
    LET S == task_create(Statics)
    IN /\ Commit(S, SCall("task_create", 0, task_create_id(Statics), S))
       /\ due' = [i \in Slots |-> IF i = free_slot(Statics) THEN 0 ELSE due[i]]
       /\ issued' = IF free_slot(Statics) = NULL THEN issued
                    ELSE Append(issued, task_create_id(Statics))

DoTick ==
    LET S == scheduler_tick(Statics)
    IN /\ Commit(S, SCall("scheduler_tick", 0, 0, S))
       /\ UNCHANGED <<due, issued>>

DoYield ==
    LET S == task_yield(Statics)
    IN /\ Commit(S, SCall("task_yield", 0, 0, S))
       /\ UNCHANGED <<due, issued>>

TaskCreate == next_task_id <= MaxCreates /\ DoCreate /\ UNCHANGED runlog

SchedulerTick == system_ticks < MaxTicks /\ DoTick /\ UNCHANGED runlog

TaskYield == DoYield /\ UNCHANGED runlog

TaskSleep ==
    \E ticks \in SleepTicks :
        LET S == task_sleep(Statics, ticks)
        IN /\ Commit(S, SCall("task_sleep", ticks, 0, S))
           /\ due' = [i \in Slots |->
                         IF i = current_task THEN system_ticks + ticks ELSE due[i]]
           /\ UNCHANGED <<runlog, issued>>

TaskExit ==
    LET S == task_exit(Statics)
    IN /\ Commit(S, SCall("task_exit", 0, 0, S))
       /\ UNCHANGED <<due, runlog, issued>>

NextTasks == TaskCreate \/ SchedulerTick \/ TaskYield \/ TaskSleep \/ TaskExit

SpecTasks == Init /\ [][NextTasks]_vars

\* Round robin: tasks are created, the first one is dispatched by a call of
\* schedule(), and from then on only the timer ticks.
\* The scheduler after n rounds of task_create, task_yield and task_exit
\* from boot: slot 0 holds the remains of task n, the queue is empty and
\* nothing is current.
AfterRounds(n) ==
    Sched([i \in Slots |->
              IF i = 1 THEN Task(n, TASK_TERMINATED, TIME_SLICE, TIME_SLICE, 0, NULL)
              ELSE scheduler_init.tasks[i]],
          NULL, NULL, NULL, Wrap(n + 1), 0)

\* The pool at the time the id counter is about to wrap; of the ids handed
\* out so far the history keeps the last one.
InitSchedulerLate ==
    LET S == AfterRounds(SIZE_MAX - 1)
    IN /\ tasks = S.tasks
       /\ task_queue_head = S.task_queue_head
       /\ task_queue_tail = S.task_queue_tail
       /\ current_task = S.current_task
       /\ next_task_id = S.next_task_id
       /\ system_ticks = S.system_ticks
       /\ scall = SCall("task_exit", 0, 0, S)
       /\ spre = View(S)
       /\ due = [i \in Slots |-> 0]
       /\ runlog = <<>>
       /\ issued = <<SIZE_MAX - 1>>

\* The task pool: tasks are created, dispatched and exit.
PoolCreate == Len(issued) < MaxPoolCreates /\ DoCreate /\ UNCHANGED runlog

\* Only the tasks created first exit.
PoolExit ==
    /\ current_task # NULL => tasks[current_task].id <= MaxExitId
    /\ TaskExit

\* schedule() is called when nothing is current.
PoolStart == current_task = NULL /\ TaskYield

NextPool == PoolCreate \/ PoolStart \/ PoolExit

InitLate == InitAllocator /\ InitSchedulerLate /\ InitIsr

SpecPool == (Init \/ InitLate) /\ [][NextPool]_vars


\* Slot reuse: tasks are created, dispatched, sleep one tick and exit while
\* the timer ticks.
ReuseCreate == Len(issued) < MaxReuseCreates /\ DoCreate /\ UNCHANGED runlog

ReuseSleep ==
    LET S == task_sleep(Statics, 1)
    IN /\ Commit(S, SCall("task_sleep", 1, 0, S))
       /\ due' = [i \in Slots |-> IF i = current_task THEN system_ticks + 1 ELSE due[i]]
       /\ UNCHANGED <<runlog, issued>>

NextReuse == ReuseCreate \/ PoolStart \/ ReuseSleep \/ SchedulerTick \/ TaskExit

SpecReuse == Init /\ [][NextReuse]_vars

\* The end of the grace window. The timer has ticked n times since boot with
\* no task created: each tick found nothing to wake and nothing current.
Ticked(n) == [scheduler_init EXCEPT !.system_ticks = n]

\* The scheduler GraceLead ticks before the window ends.
InitGrace ==
    LET S == Ticked(GRACE_TICKS - GraceLead)
    IN /\ InitAllocator
       /\ InitIsr
       /\ tasks = S.tasks
       /\ task_queue_head = S.task_queue_head
       /\ task_queue_tail = S.task_queue_tail
       /\ current_task = S.current_task
       /\ next_task_id = S.next_task_id
       /\ system_ticks = S.system_ticks
       /\ scall = SCall("scheduler_tick", 0, 0,
                        scheduler_tick(Ticked(GRACE_TICKS - GraceLead - 1)))
       /\ spre = View(Ticked(GRACE_TICKS - GraceLead - 1))
       /\ due = [i \in Slots |-> 0]
       /\ runlog = <<>>
       /\ issued = <<>>

GraceTick ==
    /\ system_ticks < GRACE_TICKS + MaxGraceTicks
    /\ DoTick
    /\ UNCHANGED runlog

\* Tasks are created, dispatched and sleep one tick while the timer ticks
\* across the end of the window.
NextGrace == ReuseCreate \/ PoolStart \/ ReuseSleep \/ GraceTick

SpecGrace == InitGrace /\ [][NextGrace]_vars

\* Progress under the timer. Before the first tick tasks are created while
\* nothing is current (at boot, and after the running task exited), and a
\* task may be dispatched by a call of schedule() or exit; from then on the
\* timer ticks and nothing else happens.
LiveCreate ==
    /\ system_ticks = 0
    /\ current_task = NULL
    /\ Len(issued) < MaxLiveTasks
    /\ DoCreate
    /\ UNCHANGED runlog

LiveStart == system_ticks = 0 /\ PoolStart

LiveExit == system_ticks = 0 /\ current_task # NULL /\ TaskExit

LiveTick ==
    /\ system_ticks < GRACE_TICKS + MaxLiveTicks
    /\ DoTick
    /\ UNCHANGED runlog

NextLive == LiveCreate \/ LiveStart \/ LiveExit \/ LiveTick

SpecLive == Init /\ [][NextLive]_vars /\ WF_vars(LiveTick)

----------------------------------------------------------------------------
(* The timer interrupt inside the scheduler's calls *)

\* scheduler.c never masks interrupts. The running task's task_yield,
\* task_sleep and task_exit are taken statement by statement, and the timer
\* interrupt runs scheduler_tick to completion between any two of them. The
\* calls are made while another task is queued.

PreemptSleepTicks == {1, 2}

\* The locals of the scheduler call the running task is inside of.
SLocal(ticks, next_task, fn) == [ticks |-> ticks, next_task |-> next_task, fn |-> fn]

\* A statement of a call under way: it writes the statics S.
Stmt(S, next_pc, l) ==
    /\ tasks' = S.tasks
    /\ task_queue_head' = S.task_queue_head
    /\ task_queue_tail' = S.task_queue_tail
    /\ current_task' = S.current_task
    /\ next_task_id' = S.next_task_id
    /\ system_ticks' = S.system_ticks
    /\ pc' = next_pc
    /\ loc' = l
    /\ UNCHANGED <<mem, heap_head, mem_stats, data, halted, call, pre, trip, held,
                   runlog, issued, isr_vars>>

Enter(op, arg) ==
    /\ scall' = SCall(op, arg, 0, Statics)
    /\ spre' = View(Statics)

Callable == pc = "idle" /\ current_task # NULL /\ task_queue_head # NULL

\* task_sleep: current_task->state = TASK_SLEEPING
PreemptSleep ==
    /\ Callable
    /\ \E ticks \in PreemptSleepTicks :
          /\ Stmt([Statics EXCEPT !.tasks[current_task].state = TASK_SLEEPING],
                  "sleep_until", SLocal(ticks, NULL, "task_sleep"))
          /\ Enter("task_sleep", ticks)
          /\ due' = [i \in Slots |->
                        IF i = current_task THEN system_ticks + ticks ELSE due[i]]

\* task_sleep: current_task->sleep_until = system_ticks + ticks
PreemptSleepUntil ==
    /\ pc = "sleep_until"
    /\ Stmt([Statics EXCEPT !.tasks[current_task].sleep_until =
                                 Wrap(system_ticks + loc.ticks)],
            "remove", loc)
    /\ UNCHANGED <<scall, spre, due>>

\* task_exit: current_task->state = TASK_TERMINATED
PreemptExit ==
    /\ Callable
    /\ Stmt([Statics EXCEPT !.tasks[current_task].state = TASK_TERMINATED],
            "exit_clear", SLocal(0, NULL, "task_exit"))
    /\ Enter("task_exit", 0)
    /\ UNCHANGED due

\* task_exit: current_task = NULL
PreemptExitClear ==
    /\ pc = "exit_clear"
    /\ Stmt([Statics EXCEPT !.current_task = NULL], "remove", loc)
    /\ UNCHANGED <<scall, spre, due>>

\* task_yield: schedule(), whose first statement is
\* next_task = task_queue_remove_next()
PreemptYield ==
    /\ Callable
    /\ Stmt(task_queue_remove_next(Statics), "requeue",
            SLocal(0, task_queue_head, "task_yield"))
    /\ Enter("task_yield", 0)
    /\ UNCHANGED due

\* schedule: next_task = task_queue_remove_next()
PreemptRemove ==
    /\ pc = "remove"
    /\ Stmt(task_queue_remove_next(Statics), "requeue",
            [loc EXCEPT !.next_task = task_queue_head])
    /\ UNCHANGED <<scall, spre, due>>

\* schedule: the return on an empty queue, else the running task goes back
\* to the queue
PreemptRequeue ==
    /\ pc = "requeue"
    /\ IF loc.next_task = NULL THEN Stmt(Statics, "idle", NoLocal)
       ELSE IF current_task # NULL /\ tasks[current_task].state = TASK_RUNNING
       THEN Stmt(task_queue_add(
                     [Statics EXCEPT
                          !.tasks[current_task].state = TASK_READY,
                          !.tasks[current_task].time_remaining =
                              tasks[current_task].time_slice],
                     current_task),
                 "switch", loc)
       ELSE Stmt(Statics, "switch", loc)
    /\ UNCHANGED <<scall, spre, due>>

\* schedule: switch_to_task(next_task)
PreemptSwitch ==
    /\ pc = "switch"
    /\ Stmt(switch_to_task(Statics, loc.next_task), "idle", NoLocal)
    /\ UNCHANGED <<scall, spre, due>>

PreemptCreate == pc = "idle" /\ TaskCreate

PreemptStart == pc = "idle" /\ PoolStart

\* SchedulerTick is the timer interrupt: it is taken at any point.

NextPreempt ==
    \/ PreemptCreate
    \/ PreemptStart
    \/ SchedulerTick
    \/ PreemptSleep
    \/ PreemptSleepUntil
    \/ PreemptExit
    \/ PreemptExitClear
    \/ PreemptYield
    \/ PreemptRemove
    \/ PreemptRequeue
    \/ PreemptSwitch

SpecPreempt == Init /\ [][NextPreempt]_vars

----------------------------------------------------------------------------
(* Traps and the calls into isr.c *)

TrapVectors == {31, 32, 40}

Handlers == {1, 2}

IrqLines == {0, 7, 8, 15}

\* The isr.c statics before a call.
IsrStatics == Isr(interrupt_handlers, pic, halted, <<>>)

\* The processor is not in the hlt loop of isr_handler; the loop is never
\* left, the trap entry having masked the interrupts.
NotHalted == ~halted

IsrCommit(I, op, vector, handler) ==
    /\ interrupt_handlers' = I.handlers
    /\ pic' = I.pic
    /\ halted' = I.halted
    /\ trap' = ICall(op, vector, handler, I.log, interrupt_handlers, pic)
    /\ UNCHANGED <<mem, heap_head, mem_stats, data, call, pre, trip, irq_vars,
                   sched_vars>>

Trap ==
    /\ NotHalted
    /\ \E v \in TrapVectors : IsrCommit(dispatch(IsrStatics, v), "trap", v, 0)
    /\ UNCHANGED registered

RegisterInterruptHandler ==
    /\ NotHalted
    /\ \E n \in TrapVectors, h \in Handlers :
          /\ IsrCommit(register_interrupt_handler(IsrStatics, n, h), "register", n, h)
          /\ registered' = [registered EXCEPT ![n] = h]

IrqEnable ==
    /\ NotHalted
    /\ \E n \in IrqLines : IsrCommit(irq_enable(IsrStatics, n), "irq_enable", n, 0)
    /\ UNCHANGED registered

IrqDisable ==
    /\ NotHalted
    /\ \E n \in IrqLines : IsrCommit(irq_disable(IsrStatics, n), "irq_disable", n, 0)
    /\ UNCHANGED registered

NextIsr == Trap \/ RegisterInterruptHandler \/ IrqEnable \/ IrqDisable

\* Masks the firmware may have left: a mix of open lines, or every line masked.
BootMasks == {90, 255}

InitAnyMasks == InitAllocator /\ InitScheduler /\ InitIsrMasks(BootMasks)

SpecIsr == InitAnyMasks /\ [][NextIsr]_vars

RotateCreate ==
    /\ current_task = NULL
    /\ runlog = <<>>
    /\ next_task_id <= MaxRotateTasks
    /\ DoCreate
    /\ UNCHANGED runlog

RotateStart ==
    /\ current_task = NULL
    /\ task_queue_head # NULL
    /\ DoYield
    /\ runlog' = runlog \o task_yield(Statics).log

RotateTick ==
    /\ current_task # NULL
    /\ system_ticks < GRACE_TICKS + MaxRotateTicks
    /\ DoTick
    /\ runlog' = runlog \o scheduler_tick(Statics).log

NextRotate == RotateCreate \/ RotateStart \/ RotateTick

SpecRotate == Init /\ [][NextRotate]_vars

----------------------------------------------------------------------------
(* Vocabulary of the claims *)

IsFree(m, b) == m[b].is_free # 0

UsedBlocks(m) == {b \in BlockSet(m) : ~IsFree(m, b)}

FreeBlocks(m) == {b \in BlockSet(m) : IsFree(m, b)}

ArenaEnd == KERNEL_HEAP_START + KERNEL_HEAP_SIZE

\* The list from heap_head is address-ordered and tiles the arena exactly.
WellTiled(m) ==
    LET bl == BlockList(m) IN
    /\ Len(bl) >= 1
    /\ bl[1] = KERNEL_HEAP_START
    /\ \A i \in 1..(Len(bl) - 1) :
         /\ bl[i] < bl[i + 1]
         /\ bl[i + 1] = bl[i] + HeaderSize + m[bl[i]].size
         /\ m[bl[i + 1]].prev = bl[i]
    /\ m[bl[Len(bl)]].next = NULL
    /\ bl[Len(bl)] + HeaderSize + m[bl[Len(bl)]].size = ArenaEnd

NoAdjacentFree(m) ==
    LET bl == BlockList(m) IN
    \A i \in 1..(Len(bl) - 1) : ~(IsFree(m, bl[i]) /\ IsFree(m, bl[i + 1]))

\* size rounded up to a multiple of 8, as a number (no wrap-around).
RoundUp8(size) == size + ((8 - (size % 8)) % 8)

\* The last call freed a block (it was not a no-op).
Freed == call.op = "kfree" /\ mem_stats.num_frees = pre.stats.num_frees + 1

----------------------------------------------------------------------------
(* C1 *)

\* C1: in every state reachable from mm_init by kmalloc, kcalloc,
\* kmalloc_aligned, krealloc and kfree calls, the block list from heap_head
\* is address-ordered and tiles the arena exactly: first block at the arena
\* base, each successor at block + header + size, last block ending at the
\* arena end, and next.prev == self.
C1_Tiling == WellTiled(mem)

\* The same statement for the calls other than kmalloc_aligned: it holds
\* under Spec.
C1_TilingWithoutAligned == WellTiled(mem) /\ PointersValid(mem)

----------------------------------------------------------------------------
(* C2 *)

\* C2: after a kfree call that freed a block returns, no two neighbours in
\* the block list are both free.
C2_NoAdjacentFreeAfterFree == Freed => NoAdjacentFree(mem)

----------------------------------------------------------------------------
(* C3 *)

\* C3: at all times used_memory + free_memory equals the arena size minus
\* (number of blocks in the list) x (header size).
C3_Conservation ==
    mem_stats.used_memory + mem_stats.free_memory
        = KERNEL_HEAP_SIZE - Len(BlockList(mem)) * HeaderSize

\* What the counters do conserve: their sum never moves from its initial
\* value, whatever the number of headers.
C3_SumIsConstant ==
    Wrap(mem_stats.used_memory + mem_stats.free_memory)
        = KERNEL_HEAP_SIZE - HeaderSize

----------------------------------------------------------------------------
(* C4 - C6: kmalloc *)

\* The block whose payload the last call returned.
RetBlock == call.ret - HeaderSize

KmallocOk == call.op = "kmalloc" /\ call.ret # NULL

\* First fit in the heap the call found: block b was free with capacity at
\* least need, and every free block below it was smaller than need.
FirstFit(b, need) ==
    /\ b \in FreeBlocks(pre.mem)
    /\ pre.mem[b].size >= need
    /\ \A x \in FreeBlocks(pre.mem) : x < b => pre.mem[x].size < need

\* The result of serving need bytes from block b, by the split rule.
SplitRule(b, need) ==
    LET old == pre.mem[b].size
        tail == b + HeaderSize + need
    IN IF old > need + HeaderSize + MinSplit
       THEN /\ mem[b].size = need
            /\ mem[b].next = tail
            /\ tail \in DOMAIN mem
            /\ IsFree(mem, tail)
            /\ mem[tail].size = old - need - HeaderSize
            /\ mem[tail].prev = b
            /\ mem[tail].next = pre.mem[b].next
       ELSE /\ mem[b].size = old
            /\ mem[b].next = pre.mem[b].next

\* C4: a successful kmalloc(size) returns the payload of the lowest-address
\* block that was free with capacity >= size rounded up to a multiple of 8.
C4_FirstFit == KmallocOk => FirstFit(RetBlock, RoundUp8(call.size))

\* C4 for the requests whose rounding does not wrap: it holds.
C4_FirstFitNoWrap ==
    (KmallocOk /\ call.size <= SIZE_MAX - 7)
        => /\ FirstFit(RetBlock, RoundUp8(call.size))
           /\ ~IsFree(mem, RetBlock)
           /\ mem[RetBlock].size >= RoundUp8(call.size)

\* C5: kmalloc splits the chosen block iff its capacity exceeds rounded
\* request + header + 32; a split leaves the used block with exactly the
\* rounded request and a free block of the remaining capacity right after
\* it; otherwise the block is handed out with its capacity unchanged.
C5_SplitRule == KmallocOk => SplitRule(RetBlock, RoundUp8(call.size))

\* C5 for the requests whose rounding does not wrap: it holds.
C5_SplitRuleNoWrap ==
    (KmallocOk /\ call.size <= SIZE_MAX - 7)
        => SplitRule(RetBlock, RoundUp8(call.size))

NoFit(need) == \A x \in FreeBlocks(pre.mem) : pre.mem[x].size < need

\* C6: kmalloc returns NULL and leaves the block list and the counters
\* unchanged when size is 0 or no free block has capacity >= the rounded
\* size, and the system is not halted.
C6_FailureIsClean ==
    (call.op = "kmalloc" /\ (call.size = 0 \/ NoFit(RoundUp8(call.size))))
        => /\ call.ret = NULL
           /\ mem = pre.mem
           /\ mem_stats = pre.stats
           /\ ~halted

\* C6 for the requests whose rounding does not wrap: it holds.
C6_FailureIsCleanNoWrap ==
    (/\ call.op = "kmalloc"
     /\ call.size <= SIZE_MAX - 7
     /\ (call.size = 0 \/ NoFit(RoundUp8(call.size))))
        => /\ call.ret = NULL
           /\ mem = pre.mem
           /\ mem_stats = pre.stats
           /\ ~halted

----------------------------------------------------------------------------
(* C7: kfree on NULL or on a block that is already free *)

\* The header image a call's ptr argument addresses.
ArgBlock == call.ptr - HeaderSize

DoubleFree ==
    /\ call.op = "kfree"
    /\ call.ptr # NULL
    /\ ArgBlock \in DOMAIN pre.mem
    /\ pre.mem[ArgBlock].is_free # 0

\* C7: kfree(NULL) and kfree of a pointer whose block is already free
\* change nothing: the block list and every counter are as before the call.
C7_FreeNoOp ==
    ((call.op = "kfree" /\ call.ptr = NULL) \/ DoubleFree)
        => (mem = pre.mem /\ mem_stats = pre.stats)

\* A second kfree of a pointer that kmalloc returned and whose block the
\* first kfree merged into its predecessor.
C7_Witness ==
    /\ DoubleFree
    /\ pre.stats.num_frees >= 1
    /\ ArgBlock \notin BlockSet(pre.mem)
    /\ mem = pre.mem

----------------------------------------------------------------------------
(* C8: round trip *)

\* C8: after N kmalloc allocations have all been freed in reverse order of
\* allocation, the heap is again one free block of capacity arena size -
\* header size, used_memory is 0 and free_memory has its initial value.
C8_RoundTrip ==
    (call.op = "kfree" /\ trip = <<>>)
        => /\ BlockList(mem) = <<KERNEL_HEAP_START>>
           /\ mem[KERNEL_HEAP_START] =
                  Header(KERNEL_HEAP_SIZE - HeaderSize, 1, NULL, NULL)
           /\ mem_stats.used_memory = 0
           /\ mem_stats.free_memory = mm_init_stats.free_memory

C8_Witness ==
    /\ call.op = "kfree"
    /\ trip = <<>>
    /\ mem_stats.num_frees = MaxTrip
    /\ mem_stats.num_allocations = MaxTrip

----------------------------------------------------------------------------
(* C9, C10: krealloc *)

\* C9: krealloc(NULL, n) gives the result and the allocator state of
\* kmalloc(n); krealloc(p, 0) for a live p gives the allocator state of
\* kfree(p) and returns NULL.
C9_ReallocDegenerate ==
    /\ (call.op = "krealloc" /\ call.ptr = NULL)
          => LET r == kmalloc(pre.mem, pre.stats, call.size)
             IN mem = r.mem /\ mem_stats = r.stats /\ call.ret = r.ret
    /\ (call.op = "krealloc" /\ call.ptr # NULL /\ call.size = 0)
          => LET r == kfree(pre.mem, pre.stats, call.ptr)
             IN mem = r.mem /\ mem_stats = r.stats /\ call.ret = NULL

C9_Witness ==
    /\ call.op = "krealloc"
    /\ call.ptr # NULL
    /\ call.size = 0
    /\ mem_stats.num_frees = pre.stats.num_frees + 1
    /\ IsFree(mem, KERNEL_HEAP_START)

\* The block of a live pointer already covers the new size.
Covers ==
    /\ call.op = "krealloc"
    /\ call.ptr # NULL
    /\ call.size > 0
    /\ pre.mem[ArgBlock].size >= call.size

\* C10: when the block already covers newSize > 0, krealloc returns the
\* same pointer, the block stays used with capacity >= newSize, and a tail
\* that is split off is a free block linked right after it.
C10_ShrinkInPlace ==
    Covers =>
        LET b == ArgBlock
            t == mem[b].next
            n == pre.mem[b].next
        IN /\ call.ret = call.ptr
           /\ ~IsFree(mem, b)
           /\ mem[b].size >= call.size
           /\ \/ mem = pre.mem
              \/ /\ t = b + HeaderSize + mem[b].size
                 /\ t \in DOMAIN mem
                 /\ IsFree(mem, t)
                 /\ mem[t].prev = b
                 /\ mem[t].next = n
                 /\ mem[b].size + HeaderSize + mem[t].size = pre.mem[b].size
                 /\ n # NULL => mem[n].prev = t

C10_Witness ==
    /\ Covers
    /\ mem[ArgBlock].size < pre.mem[ArgBlock].size
    /\ mem[ArgBlock].next # pre.mem[ArgBlock].next
    /\ pre.mem[ArgBlock].next # NULL

----------------------------------------------------------------------------
(* C11: krealloc growing a block *)

\* Every tracked payload is the payload of a used block of the list and has
\* as many bytes as the block has capacity.
DataTracksBlocks ==
    /\ DOMAIN data = LivePointers
    /\ \A p \in DOMAIN data : RunsLen(data[p]) = mem[p - HeaderSize].size

\* The block of a live pointer is smaller than the new size.
Grows ==
    /\ call.op = "krealloc"
    /\ call.ptr # NULL
    /\ call.size > 0
    /\ pre.mem[ArgBlock].size < call.size

FitExists(need) == \E x \in FreeBlocks(pre.mem) : pre.mem[x].size >= need

\* Block f covers the bytes block b covered before the call.
Holds(f, b) ==
    /\ f <= b
    /\ b + HeaderSize + pre.mem[b].size <= f + HeaderSize + mem[f].size

\* Block f has no free neighbour in the list.
Coalesced(f) ==
    /\ mem[f].next # NULL => ~IsFree(mem, mem[f].next)
    /\ \A x \in BlockSet(mem) : mem[x].next = f => ~IsFree(mem, x)

\* C11: when the block's capacity is smaller than newSize and a free block
\* fits the request, krealloc returns a pointer to a different used block of
\* capacity >= newSize whose first min(old capacity, newSize) bytes are the
\* old payload's, and the original block is free and coalesced afterwards.
C11_GrowMoves ==
    (Grows /\ FitExists(RoundUp8(call.size))) =>
        LET old == pre.mem[ArgBlock].size
            n == IF old < call.size THEN old ELSE call.size
        IN /\ call.ret # NULL
           /\ call.ret # call.ptr
           /\ RetBlock \in UsedBlocks(mem)
           /\ mem[RetBlock].size >= call.size
           /\ RunsLen(data[call.ret]) >= n
           /\ Take(data[call.ret], n) = Take(pre.data[call.ptr], n)
           /\ \E f \in FreeBlocks(mem) : Holds(f, ArgBlock) /\ Coalesced(f)

\* A block that krealloc had shrunk in place grows again: its bytes move
\* and the freed original merges with the free tail behind it.
C11_Witness ==
    /\ Grows
    /\ call.ret # NULL
    /\ pre.mem[ArgBlock].size > 0
    /\ mem[ArgBlock].size > pre.mem[ArgBlock].size
    /\ IsFree(mem, ArgBlock)

----------------------------------------------------------------------------
(* C12: kcalloc *)

\* count x size fits in a machine word.
ProductFits == call.size = 0 \/ call.n <= SIZE_MAX \div call.size

\* C12: kcalloc(count, size) returns NULL and leaves the allocator state
\* unchanged when count x size does not fit in a size_t; otherwise it does
\* what kmalloc(count x size) does, and the count x size bytes at the
\* returned pointer are all zero.
C12_Calloc ==
    call.op = "kcalloc" =>
        IF ~ProductFits
        THEN call.ret = NULL /\ mem = pre.mem /\ mem_stats = pre.stats /\ ~halted
        ELSE LET total == call.n * call.size
                 r == kmalloc(pre.mem, pre.stats, total)
             IN /\ ~halted
                /\ call.ret = r.ret
                /\ mem = r.mem
                /\ mem_stats = r.stats
                /\ call.ret # NULL =>
                      /\ RunsLen(data[call.ret]) >= total
                      /\ Take(data[call.ret], total) = Fill(0, total)

\* C12 for the calls that neither divide by zero nor make the rounding in
\* kmalloc wrap: it holds.
C12_CallocNoFault ==
    (call.op = "kcalloc" /\ call.n # 0
        /\ (ProductFits => call.n * call.size <= SIZE_MAX - 7))
    => C12_Calloc

----------------------------------------------------------------------------
(* C13: kmalloc_aligned *)

RECURSIVE IsPowerOfTwo(_)
IsPowerOfTwo(n) == n = 1 \/ (n > 1 /\ n % 2 = 0 /\ IsPowerOfTwo(n \div 2))

\* The pointer-width value stored off bytes into a payload, -1 when one of
\* its bytes was never written.
WordAt(rs, off) ==
    LET b(k) == Take(Drop(rs, off + k), 1)
    IN IF off >= 0 /\ \A k \in 0..(PtrSize - 1) : b(k) # <<>> /\ b(k)[1].kind = "byte"
       THEN b(0)[1].v + 256 * b(1)[1].v + 65536 * b(2)[1].v + 16777216 * b(3)[1].v
       ELSE -1

\* C13: kmalloc_aligned returns NULL without changing allocator state when
\* alignment is 0 or not a power of two; on success the returned address is
\* a multiple of alignment, the size bytes at it and the pointer-width slot
\* right before it lie inside the payload of one used block, and the slot
\* holds that block's payload pointer.
C13_Aligned ==
    call.op = "kmalloc_aligned" =>
        /\ ~IsPowerOfTwo(call.n) =>
              call.ret = NULL /\ mem = pre.mem /\ mem_stats = pre.stats
        /\ call.ret # NULL =>
              /\ call.ret % call.n = 0
              /\ \E b \in UsedBlocks(mem) :
                    /\ b + HeaderSize <= call.ret - PtrSize
                    /\ call.ret + call.size <= b + HeaderSize + mem[b].size
                    /\ b + HeaderSize \in DOMAIN data
                    /\ WordAt(data[b + HeaderSize], call.ret - PtrSize - (b + HeaderSize))
                           = b + HeaderSize

\* C13 for the requests whose size + alignment + pointer width does not
\* wrap: it holds.
C13_AlignedNoWrap ==
    (call.op = "kmalloc_aligned" /\ call.size + call.n <= SIZE_MAX - PtrSize - 7)
        => C13_Aligned

----------------------------------------------------------------------------
(* C14: allocator calls and interrupts *)

\* C14: whenever a timer interrupt whose handler calls kmalloc or kfree
\* arrives inside a task's kmalloc, kfree or krealloc, the call still reads
\* nothing but headers, the block list is a well-formed tiling once the call
\* has returned, and no pointer is held by the task and by the handler at
\* the same time.
C14_CriticalSection ==
    /\ pc # "wild"
    /\ pc = "idle" => WellTiled(mem)
    /\ held.task \cap held.irq = {}

----------------------------------------------------------------------------
(* Vocabulary of the scheduler claims *)

RECURSIVE QueueFrom(_, _, _)
QueueFrom(t, cur, fuel) ==
    IF cur = NULL \/ fuel = 0 THEN <<>>
    ELSE <<cur>> \o QueueFrom(t, t[cur].next, fuel - 1)

\* The ready queue as the sequence of tasks reached from task_queue_head; a
\* queue that loops shows as a sequence longer than the pool.
Queue(S) == QueueFrom(S.tasks, S.task_queue_head, MAX_TASKS + 1)

Count(q, x) == Cardinality({j \in 1..Len(q) : q[j] = x})

SlotSeq == [i \in Slots |-> i]

----------------------------------------------------------------------------
(* C15 *)

\* C15: in every state reachable by task_create, scheduler_tick,
\* schedule/task_yield, task_sleep and task_exit the ready queue holds
\* exactly the tasks whose state is READY, each exactly once: no RUNNING,
\* SLEEPING or TERMINATED task is queued and no READY task is missing.
C15_QueueIsReadySet ==
    \A i \in Slots :
        Count(Queue(Statics), i) = IF tasks[i].state = TASK_READY THEN 1 ELSE 0

----------------------------------------------------------------------------
(* C16 *)

\* C16: TERMINATED is absorbing and entered only through task_exit: a slot
\* leaves TERMINATED only when task_create reuses it, a live task becomes
\* TERMINATED only as the caller of task_exit, and the caller of task_exit
\* is TERMINATED when the call is over.
C16_TerminatedAbsorbing ==
    /\ \A i \in Slots :
          (spre.tasks[i].state = TASK_TERMINATED /\ tasks[i].state # TASK_TERMINATED)
              => (scall.op = "task_create" /\ scall.ret # 0 /\ tasks[i].id = scall.ret)
    /\ \A i \in Slots :
          (spre.tasks[i].state # TASK_TERMINATED /\ tasks[i].state = TASK_TERMINATED)
              => (scall.op = "task_exit" /\ spre.current_task = i)
    /\ (scall.op = "task_exit" /\ spre.current_task # NULL)
          => tasks[spre.current_task].state = TASK_TERMINATED

----------------------------------------------------------------------------
(* C17 *)

\* C17: a task that called task_sleep(k) at tick T is neither RUNNING nor
\* READY while the tick counter is below T + k.
C17_NoEarlyWake ==
    \A i \in Slots :
        system_ticks < due[i]
            => tasks[i].state \notin {TASK_RUNNING, TASK_READY}

----------------------------------------------------------------------------
(* C18 *)

\* The sleepers scheduler_tick has to wake, by ascending slot.
Woken ==
    LET Due(i) == /\ spre.tasks[i].state = TASK_SLEEPING
                  /\ spre.tasks[i].sleep_until <= system_ticks
    IN SelectSeq(SlotSeq, Due)

\* C18: after a scheduler_tick no task is SLEEPING with sleep_until <=
\* system_ticks; every such task was made READY and appended to the ready
\* queue behind the tasks already queued, those woken on the same tick in
\* ascending slot order.
C18_WakeOrder ==
    scall.op = "scheduler_tick" =>
        /\ \A i \in Slots :
              ~(tasks[i].state = TASK_SLEEPING /\ tasks[i].sleep_until <= system_ticks)
        /\ Queue(scall.mid[1]) = Queue(spre) \o Woken
        /\ \A j \in 1..Len(Woken) : scall.mid[1].tasks[Woken[j]].state = TASK_READY

----------------------------------------------------------------------------
(* C19 *)

\* C19: with no sleeps, exits or creations and only slice-exhaustion
\* switches the tasks run in round-robin admission order: the k-th task to
\* be installed is the one admitted ((k - 1) mod n) + 1-th of the n tasks,
\* so between two turns of a task every other task runs exactly once, in
\* admission order.
C19_RoundRobin ==
    \A k \in 1..Len(runlog) :
        tasks[runlog[k]].id = ((k - 1) % (next_task_id - 1)) + 1

\* Three tasks, each installed at least twice.
C19_Witness ==
    /\ next_task_id = 4
    /\ Len(runlog) >= 7
    /\ scall.op = "scheduler_tick"

----------------------------------------------------------------------------
(* C20 *)

\* schedule() was entered with a RUNNING current task and a non-empty queue.
Preempts ==
    /\ scall.at # <<>>
    /\ scall.at[1].current_task # NULL
    /\ scall.at[1].tasks[scall.at[1].current_task].state = TASK_RUNNING
    /\ scall.at[1].task_queue_head # NULL

\* C20: when schedule() runs with a RUNNING current task and a non-empty
\* ready queue, the old head becomes RUNNING and current with a full slice,
\* the task that was running becomes READY with time_remaining reset to
\* time_slice and is the new tail, and the other queued tasks keep their
\* order.
C20_Schedule ==
    Preempts =>
        LET a == scall.at[1]
            h == a.task_queue_head
            c == a.current_task
        IN /\ current_task = h
           /\ tasks[h].state = TASK_RUNNING
           /\ tasks[h].time_remaining = tasks[h].time_slice
           /\ tasks[c].state = TASK_READY
           /\ tasks[c].time_remaining = tasks[c].time_slice
           /\ task_queue_tail = c
           /\ Queue(Statics) = Tail(Queue(a)) \o <<c>>

----------------------------------------------------------------------------
(* C21 *)

\* The ids of the tasks installed so far, in the order of their installs.
RunIds == [k \in 1..Len(runlog) |-> tasks[runlog[k]].id]

\* Three tasks were created and 35 ticks have passed since the grace window
\* ended.
ScenarioB ==
    /\ next_task_id = 4
    /\ system_ticks = GRACE_TICKS + 35

\* C21: Scenario B: tasks A, B, C created in that order with slice 10, the
\* grace window elapsed and no voluntary yields; after 35 timer ticks the
\* execution order was A,B,C,A,B,C,A,B,C,A.
C21_ScenarioB ==
    ScenarioB => RunIds = <<1, 2, 3, 1, 2, 3, 1, 2, 3, 1>>

----------------------------------------------------------------------------
(* C22 *)

\* C22: after task_sleep(k) by the current task at tick T, whatever the
\* ready queue holds (nothing included), the caller is SLEEPING with
\* sleep_until = T + k and is not the current task; a SLEEPING task is never
\* the current task.
C22_SleepBlocks ==
    /\ (scall.op = "task_sleep" /\ spre.current_task # NULL) =>
           /\ tasks[spre.current_task].state = TASK_SLEEPING
           /\ tasks[spre.current_task].sleep_until = spre.system_ticks + scall.arg
           /\ current_task # spre.current_task
    /\ \A i \in Slots : tasks[i].state = TASK_SLEEPING => current_task # i

----------------------------------------------------------------------------
(* C23 *)

\* A task_create call that found a TERMINATED slot.
Created ==
    /\ scall.op = "task_create"
    /\ \E i \in Slots : spre.tasks[i].state = TASK_TERMINATED

\* C23: every successful task_create returns a non-zero id strictly greater
\* than every id returned before, so no id is issued twice, slot reuse
\* included.
C23_FreshIds ==
    /\ \A k \in 1..Len(issued) : issued[k] # 0
    /\ \A j, k \in 1..Len(issued) : j < k => issued[j] < issued[k]
    /\ Created => (scall.ret # 0 /\ scall.ret = issued[Len(issued)])

----------------------------------------------------------------------------
(* C24 *)

\* C24: task_create returns 0 exactly when none of the MAX_TASKS pool slots
\* is TERMINATED, and then the task pool, the ready queue, current_task and
\* next_task_id are as they were.
C24_PoolFull ==
    scall.op = "task_create" =>
        /\ (scall.ret = 0) <=> (\A i \in Slots : spre.tasks[i].state # TASK_TERMINATED)
        /\ scall.ret = 0 => View(Statics) = spre

----------------------------------------------------------------------------
(* C25 *)

\* The slot a task_create call took: the first TERMINATED one.
NewSlot ==
    CHOOSE i \in Slots :
        /\ spre.tasks[i].state = TASK_TERMINATED
        /\ \A j \in 1..(i - 1) : spre.tasks[j].state # TASK_TERMINATED

\* C25: a successful task_create puts the new task READY at the tail of the
\* ready queue with time_slice = time_remaining = 10 and does not run it:
\* current_task and the state and queue position of every other task are
\* as they were.
C25_CreateFrame ==
    Created =>
        /\ tasks[NewSlot].state = TASK_READY
        /\ tasks[NewSlot].time_slice = 10
        /\ tasks[NewSlot].time_remaining = 10
        /\ task_queue_tail = NewSlot
        /\ Queue(Statics) = Queue(spre) \o <<NewSlot>>
        /\ current_task = spre.current_task
        /\ \A i \in Slots \ {NewSlot} : tasks[i].state = spre.tasks[i].state

----------------------------------------------------------------------------
(* C26 *)

\* Task i is READY in the ready queue, the grace window is over, and the
\* ticks still to come are enough for every task to use up a slice.
Waits(i) ==
    /\ tasks[i].state = TASK_READY
    /\ Count(Queue(Statics), i) = 1
    /\ system_ticks > GRACE_TICKS
    /\ system_ticks + (MaxLiveTasks + 1) * TIME_SLICE <= GRACE_TICKS + MaxLiveTicks

\* C26: under repeated timer ticks alone, past the grace window, every task
\* that is READY in the ready queue eventually becomes RUNNING, also when no
\* task is current.
C26_ReadyRuns ==
    \A i \in 1..MaxLiveTasks : Waits(i) ~> (tasks[i].state = TASK_RUNNING)

----------------------------------------------------------------------------
(* C27 *)

\* C27: a timer tick arriving anywhere inside a voluntary schedule(),
\* task_sleep or task_exit does no harm: once the call is over no task has
\* been lost from or duplicated in the ready queue (it holds the READY
\* tasks, each once), at most one task is RUNNING, and a task is never made
\* READY or RUNNING before the wake time of its task_sleep.
C27_Indivisible ==
    /\ pc = "idle" =>
          /\ \A i \in Slots :
                Count(Queue(Statics), i) = IF tasks[i].state = TASK_READY THEN 1 ELSE 0
          /\ Cardinality({i \in Slots : tasks[i].state = TASK_RUNNING}) <= 1
    /\ \A i \in Slots :
          system_ticks < due[i] => tasks[i].state \notin {TASK_RUNNING, TASK_READY}

----------------------------------------------------------------------------
(* C28 *)

\* The last call into isr.c was a trap of a device IRQ vector.
IrqTrap == trap.op = "trap" /\ trap.vector >= 32

\* C28: for every device IRQ trap (vector >= 32) irq_handler writes End Of
\* Interrupt to the PIC before the registered handler is invoked: to the
\* slave first only when IRQ >= 8, then always to the master; the writes are
\* made also when no handler is registered.
C28_EoiFirst ==
    IrqTrap =>
        trap.did =
            (IF trap.vector - 32 >= 8 THEN <<Outb(160, 32)>> ELSE <<>>)
            \o <<Outb(32, 32)>>
            \o (IF trap.pre.handlers[trap.vector] # 0
                THEN <<Invoke(trap.pre.handlers[trap.vector], trap.vector)>>
                ELSE <<>>)

\* An IRQ of the slave PIC with a handler registered.
C28_Witness ==
    /\ IrqTrap
    /\ trap.vector = 40
    /\ trap.pre.handlers[40] # 0

----------------------------------------------------------------------------
(* C29 *)

\* The handler calls the last trap made.
HandlerCalls ==
    LET IsCall(e) == e.op = "call"
    IN SelectSeq(trap.did, IsCall)

\* What a trap does, by the handler last registered for its vector.
TrapOutcome ==
    trap.op = "trap" =>
        IF registered[trap.vector] # 0
        THEN /\ HandlerCalls = <<Invoke(registered[trap.vector], trap.vector)>>
             /\ ~halted
        ELSE /\ HandlerCalls = <<>>
             /\ halted <=> trap.vector < 32

----------------------------------------------------------------------------
(* C30 *)

\* Bit j of an eight-bit mask.
BitOf(x, j) == (x \div Pow2(j)) % 2

\* The last call into isr.c was irq_enable or irq_disable.
MaskCall == trap.op \in {"irq_enable", "irq_disable"}

\* C30: irq_enable(n) clears and irq_disable(n) sets exactly one mask bit:
\* bit n of the master PIC mask for n < 8, bit n - 8 of the slave PIC mask
\* for 8 <= n < 16; the other bits of that mask and the mask of the other
\* PIC are as they were, and calling again changes nothing.
C30_MaskBit ==
    MaskCall =>
        LET n == trap.vector
            k == IF n < 8 THEN n ELSE n - 8
            want == IF trap.op = "irq_enable" THEN 0 ELSE 1
            new == IF n < 8 THEN pic.master ELSE pic.slave
            old == IF n < 8 THEN trap.pre.pic.master ELSE trap.pre.pic.slave
        IN /\ BitOf(new, k) = want
           /\ \A j \in (0..7) \ {k} : BitOf(new, j) = BitOf(old, j)
           /\ new \in 0..255
           /\ IF n < 8 THEN pic.slave = trap.pre.pic.slave
                       ELSE pic.master = trap.pre.pic.master
           /\ IF trap.op = "irq_enable"
              THEN irq_enable(IsrStatics, n).pic = pic
              ELSE irq_disable(IsrStatics, n).pic = pic

\* irq_disable(15) set bit 7 of the slave mask, which was clear.
C30_Witness ==
    /\ trap.op = "irq_disable"
    /\ trap.vector = 15
    /\ BitOf(trap.pre.pic.slave, 7) = 0
    /\ BitOf(pic.slave, 7) = 1

----------------------------------------------------------------------------
(* C31 *)

\* The sleepers the last tick found due.
GraceDue ==
    {i \in Slots : /\ spre.tasks[i].state = TASK_SLEEPING
                   /\ spre.tasks[i].sleep_until <= system_ticks}

\* C31: a scheduler_tick that leaves system_ticks <= 100 decrements no
\* time_remaining and does not call schedule(), so current_task is as it
\* was, while every sleeper whose wake time has come is made READY and is in
\* the ready queue; a tick that leaves system_ticks > 100 with a task
\* current decrements that task's time_remaining, and calls schedule() when
\* it reached 0.
C31_GraceWindow ==
    scall.op = "scheduler_tick" =>
        IF system_ticks <= GRACE_TICKS
        THEN /\ scall.at = <<>>
             /\ current_task = spre.current_task
             /\ \A i \in Slots : tasks[i].time_remaining = spre.tasks[i].time_remaining
             /\ \A i \in GraceDue :
                   /\ tasks[i].state = TASK_READY
                   /\ Count(Queue(Statics), i) >= 1
        ELSE spre.current_task # NULL =>
                LET cur == spre.current_task
                    left == Wrap(spre.tasks[cur].time_remaining - 1)
                IN IF left = 0
                   THEN /\ scall.at # <<>>
                        /\ scall.at[1].tasks[cur].time_remaining = 0
                   ELSE /\ scall.at = <<>>
                        /\ tasks[cur].time_remaining = left
                        /\ current_task = cur

----------------------------------------------------------------------------
(* C32 *)

\* C32: in every state reachable by the scheduler operations the ready
\* queue is a finite singly linked list: following next from
\* task_queue_head reaches NULL without meeting a task twice, and
\* task_queue_tail is the last task reached, both being NULL when the queue
\* is empty.
C32_QueueWellFormed ==
    LET q == Queue(Statics)
    IN /\ Len(q) <= MAX_TASKS
       /\ \A i \in Slots : Count(q, i) <= 1
       /\ IF q = <<>> THEN task_queue_head = NULL /\ task_queue_tail = NULL
          ELSE task_queue_tail = q[Len(q)]

----------------------------------------------------------------------------
(* C33 *)

\* C33: in every reachable scheduler state a task is RUNNING if and only if
\* current_task points to it.
C33_RunningIsCurrent ==
    \A i \in Slots : (tasks[i].state = TASK_RUNNING) <=> (current_task = i)

----------------------------------------------------------------------------
(* C34 *)

\* C34: after every scheduler_tick the time_remaining of every READY or
\* RUNNING task lies in 1..time_slice: it is never left at 0 and never wraps
\* below 0, also when the running task uses up its slice while the ready
\* queue is empty.
C34_SliceInRange ==
    scall.op = "scheduler_tick" =>
        \A i \in Slots :
            tasks[i].state \in {TASK_READY, TASK_RUNNING}
                => tasks[i].time_remaining \in 1..tasks[i].time_slice

----------------------------------------------------------------------------
(* C35 *)

\* C35: in every state reachable by kmalloc, kcalloc, krealloc and kfree on
\* valid pointers every block's capacity is a multiple of 8 and every block
\* header lies at a multiple of 8 from the arena base, so every pointer the
\* allocator returns is 8-byte aligned relative to the arena base.
C35_EightAligned ==
    /\ \A b \in BlockSet(mem) :
          /\ mem[b].size % 8 = 0
          /\ (b - KERNEL_HEAP_START) % 8 = 0
    /\ call.ret # NULL => (call.ret - KERNEL_HEAP_START) % 8 = 0

----------------------------------------------------------------------------
(* C36 *)

\* C36: for every size in 1..SIZE_MAX, kmalloc(size) returns NULL or a
\* block whose capacity is at least size: the rounding up to a multiple of
\* 8 does not wrap into a smaller request that succeeds.
C36_NoRoundingWrap ==
    (call.op = "kmalloc" /\ call.size >= 1 /\ call.ret # NULL)
        => mem[call.ret - HeaderSize].size >= call.size

----------------------------------------------------------------------------
(* C37 *)

\* C37: kcalloc(0, size) returns NULL with the allocator state unchanged
\* and does not fault: the overflow check divides by no zero.
C37_CallocZeroCount ==
    (call.op = "kcalloc" /\ call.n = 0)
        => /\ ~halted
           /\ call.ret = NULL
           /\ Snapshot = pre

----------------------------------------------------------------------------
(* C38 *)

\* C38: when krealloc has to grow a block (capacity < newSize) and no free
\* block fits newSize, it returns NULL, and the original block, its
\* payload, the block list and the statistics are as they were.
C38_GrowFailureIsClean ==
    (Grows /\ ~FitExists(call.size))
        => /\ call.ret = NULL
           /\ ~halted
           /\ Snapshot = pre

----------------------------------------------------------------------------
(* C39 *)

\* The sum of the capacities of the used blocks among the blocks bs.
RECURSIVE UsedCapacity(_, _)
UsedCapacity(m, bs) ==
    IF bs = <<>> THEN 0
    ELSE (IF m[bs[1]].is_free = 0 THEN m[bs[1]].size ELSE 0)
         + UsedCapacity(m, Tail(bs))

\* C39: after any sequence of kmalloc, kcalloc, krealloc and kfree on valid
\* pointers used_memory is the sum of the capacities of the used blocks and
\* num_allocations - num_frees is the number of used blocks.
C39_StatsFaithful ==
    /\ mem_stats.used_memory = UsedCapacity(mem, BlockList(mem))
    /\ mem_stats.num_allocations - mem_stats.num_frees
          = Cardinality(UsedBlocks(mem))

----------------------------------------------------------------------------
(* C40 *)

\* The block list and the counters other than largest_free_block are as
\* they were before the last call.
Untouched ==
    /\ mem = pre.mem
    /\ data = pre.data
    /\ [mem_stats EXCEPT !.largest_free_block = 0]
          = [pre.stats EXCEPT !.largest_free_block = 0]

\* C40: mm_check_heap_integrity returns 1 in every state reachable from
\* mm_init by kmalloc, kcalloc, kmalloc_aligned, krealloc and kfree on valid
\* pointers, and neither it nor mm_get_stats changes the block list or the
\* used, free, allocation and free counters.
C40_IntegrityHolds ==
    /\ call.op = "mm_check_heap_integrity" => (call.ret = 1 /\ Untouched)
    /\ call.op = "mm_get_stats" => Untouched

====
